---- MODULE Spec2Model ----
(***************************************************************************)
(* A model of assembler.py, the extended HACK assembler of the             *)
(* Nand2Tetris-Life repository: the expression evaluator, the operation    *)
(* parser, the three symbol-table passes, the synthesis of initialization  *)
(* code, the instruction encoder and the final error gate.                 *)
(*                                                                         *)
(* Text is kept as TLA+ strings; positions are 1-based here and 0-based in *)
(* the Python source, so a "not found" of -1 there is 0 here.              *)
(***************************************************************************)
EXTENDS Integers, Sequences, FiniteSets, TLC

(***************************************************************************)
(* Program constants.                                                      *)
(***************************************************************************)
MAXRAM == 16384
MAXROM == 32768
CINSTR == 57344
NOTALU == 64
ALU == 0

(***************************************************************************)
(* Strings, as Python's str methods compute them.                          *)
(***************************************************************************)
\* the character at position i, "" outside the string
Ch(s, i) == IF i >= 1 /\ i <= Len(s) THEN SubSeq(s, i, i) ELSE ""

\* s[a-1:b] of the source; a slice is cut to the string, as Python cuts it
Slice(s, a, b) ==
    LET lo == IF a < 1 THEN 1 ELSE a
        hi == IF b > Len(s) THEN Len(s) ELSE b
    IN IF lo > hi THEN "" ELSE SubSeq(s, lo, hi)

\* s[i:] of the source with i = a - 1
From(s, a) == Slice(s, a, Len(s))

InStr(c, set) == c # "" /\ \E i \in 1..Len(set) : Ch(set, i) = c

\* position of c in the alphabet string, 0 when absent
IndexIn(c, alphabet) ==
    IF InStr(c, alphabet)
    THEN CHOOSE i \in 1..Len(alphabet) :
            /\ Ch(alphabet, i) = c
            /\ \A j \in 1..(i - 1) : Ch(alphabet, j) # c
    ELSE 0

StartsWith(s, p) == Len(p) <= Len(s) /\ Slice(s, 1, Len(p)) = p

EndsWith(s, p) == Len(p) <= Len(s) /\ Slice(s, Len(s) - Len(p) + 1, Len(s)) = p

\* the least and the greatest of a set of positions, 0 for the empty set
First(hits) == IF hits = {} THEN 0 ELSE CHOOSE i \in hits : \A j \in hits : i <= j

Last(hits) == IF hits = {} THEN 0 ELSE CHOOSE i \in hits : \A j \in hits : i >= j

\* s.find(p, start): the first position >= start where p occurs, 0 when none
FindFrom(s, p, start) ==
    First({i \in start..(Len(s) - Len(p) + 1) : Slice(s, i, i + Len(p) - 1) = p})

Find(s, p) == FindFrom(s, p, 1)

\* s.rfind(p): the last position where p occurs, 0 when none
RFind(s, p) == Last({i \in 1..(Len(s) - Len(p) + 1) : Slice(s, i, i + Len(p) - 1) = p})

Contains(s, p) == Find(s, p) # 0

RECURSIVE Split(_, _)
\* the pieces of s, whose first sep is at position at (0 when it has none)
SplitAt(s, sep, at) ==
    IF at = 0 THEN <<s>>
    ELSE <<Slice(s, 1, at - 1)>> \o Split(From(s, at + Len(sep)), sep)

\* s.split(sep): the pieces of s between the occurrences of sep
Split(s, sep) == SplitAt(s, sep, Find(s, sep))

\* the two pieces of s around position at, s alone when at is 0
CutAt(s, sep, at) ==
    IF at = 0 THEN <<s>> ELSE <<Slice(s, 1, at - 1), From(s, at + Len(sep))>>

\* s.split(sep, 1): at most two pieces, cut at the first sep
Split1(s, sep) == CutAt(s, sep, Find(s, sep))

UPPERCASE == "ABCDEFGHIJKLMNOPQRSTUVWXYZ"
LOWERCASE == "abcdefghijklmnopqrstuvwxyz"

UpperCh(c) == IF InStr(c, LOWERCASE) THEN Ch(UPPERCASE, IndexIn(c, LOWERCASE)) ELSE c

LowerCh(c) == IF InStr(c, UPPERCASE) THEN Ch(LOWERCASE, IndexIn(c, UPPERCASE)) ELSE c

RECURSIVE Upper(_)
Upper(s) == IF s = "" THEN "" ELSE UpperCh(Ch(s, 1)) \o Upper(From(s, 2))

RECURSIVE Lower(_)
Lower(s) == IF s = "" THEN "" ELSE LowerCh(Ch(s, 1)) \o Lower(From(s, 2))

DIGITS == "0123456789abcdef"

RECURSIVE NatStr(_)
NatStr(n) == IF n < 10 THEN Ch(DIGITS, n + 1)
             ELSE NatStr(n \div 10) \o Ch(DIGITS, (n % 10) + 1)

\* str(n) of a Python int
Str(n) == IF n < 0 THEN "-" \o NatStr(-n) ELSE NatStr(n)

\* ord(c) over the printable ASCII characters, the grave accent (96) left out
ASCII32 == " !\"#$%&'()*+,-./0123456789:;<=>?@ABCDEFGHIJKLMNOPQRSTUVWXYZ[\\]^_"
ASCII123 == "{|}~"

Ord(c) == IF InStr(c, ASCII32) THEN 31 + IndexIn(c, ASCII32)
          ELSE IF InStr(c, LOWERCASE) THEN 96 + IndexIn(c, LOWERCASE)
          ELSE 122 + IndexIn(c, ASCII123)

(***************************************************************************)
(* The character sets used in parsing.                                     *)
(***************************************************************************)
SYMBOLCHARS == "abcdefghijklmnopqrstuvwxyzABCDEFGHIJKLMNOPQRSTUVWXYZ0123456789_.$:"
DECIMALCHARS == "0123456789"
OPERATORS == "-+/*%&|~<>"
UNARYOPERATORS == "-+~"
QUOTES == "\"'"

(***************************************************************************)
(* int(s, 0) of Python on lower-cased text without white space: an         *)
(* optional sign, then a 0x, 0o or 0b literal or a decimal one; single     *)
(* underscores may separate digits; a decimal literal with a leading zero  *)
(* must be all zeros.  The result is [ok, val]; ok = FALSE is ValueError.  *)
(***************************************************************************)
DigitVal(c) == IndexIn(c, DIGITS) - 1

IsDigitIn(c, base) == InStr(c, DIGITS) /\ DigitVal(c) < base

\* digits of the base with single underscores between them
WellGrouped(t, base) ==
    /\ t # ""
    /\ \A i \in 1..Len(t) : Ch(t, i) = "_" \/ IsDigitIn(Ch(t, i), base)
    /\ Ch(t, 1) # "_"
    /\ Ch(t, Len(t)) # "_"
    /\ \A i \in 1..(Len(t) - 1) : ~(Ch(t, i) = "_" /\ Ch(t, i + 1) = "_")

RECURSIVE DigitsValue(_, _, _)
DigitsValue(t, base, acc) ==
    IF t = "" THEN acc
    ELSE IF Ch(t, 1) = "_" THEN DigitsValue(From(t, 2), base, acc)
    ELSE DigitsValue(From(t, 2), base, acc * base + DigitVal(Ch(t, 1)))

\* the base a literal's prefix selects
BaseOf(prefix) ==
    IF prefix = "0x" THEN 16 ELSE IF prefix = "0o" THEN 8 ELSE IF prefix = "0b" THEN 2 ELSE 10

\* the digits of a literal t of the given base, after its prefix
DigitsOf(t, base) ==
    IF base = 10 THEN t ELSE IF Ch(t, 3) = "_" THEN From(t, 4) ELSE From(t, 3)

\* the value of the literal t whose digits are body
LiteralValue(t, body, base) ==
    IF /\ WellGrouped(body, base)
       /\ (base = 10 /\ Ch(t, 1) = "0") => \A i \in 1..Len(t) : Ch(t, i) \in {"0", "_"}
    THEN [ok |-> TRUE, val |-> DigitsValue(body, base, 0)]
    ELSE [ok |-> FALSE, val |-> 0]

PyIntUnsigned(t) == LiteralValue(t, DigitsOf(t, BaseOf(Slice(t, 1, 2))), BaseOf(Slice(t, 1, 2)))

\* the literal r with its sign
Signed(negative, r) == [ok |-> r.ok, val |-> IF negative THEN 0 - r.val ELSE r.val]

PyInt0(t) ==
    IF t = "" THEN [ok |-> FALSE, val |-> 0]
    ELSE Signed(Ch(t, 1) = "-",
                PyIntUnsigned(IF Ch(t, 1) \in {"-", "+"} THEN From(t, 2) ELSE t))

(***************************************************************************)
(* Results of the functions that can raise: [ok |-> TRUE, val |-> v] for a *)
(* return, [ok |-> FALSE, exc |-> class, msg |-> text] for an exception.   *)
(***************************************************************************)
Ret(v) == [ok |-> TRUE, val |-> v]

Raise(class, text) == [ok |-> FALSE, exc |-> class, msg |-> text]

is_symbol(s) ==
    IF s = "" THEN FALSE
    ELSE IF InStr(Ch(s, 1), DECIMALCHARS) THEN FALSE
    ELSE IF Ch(s, 1) = "-" THEN FALSE
    ELSE \A i \in 1..Len(s) : InStr(Ch(s, i), SYMBOLCHARS)

RECURSIVE constant(_)
\* the try/except around int(s.lower(), 0), r being what int gave
ConstantOrRetry(s, r) ==
    IF r.ok THEN Ret(r.val)
    ELSE IF Ch(s, 1) = "0" THEN constant(From(s, 2))
    ELSE Raise("Exception", "Invalid constant [" \o s \o "]")

constant(s) ==
    IF s = "" THEN Ret(0)
    ELSE IF Len(s) = 3 /\ InStr(Ch(s, 1), QUOTES) /\ Ch(s, 3) = Ch(s, 1)
         THEN Ret(Ord(Ch(s, 2)))
    ELSE ConstantOrRetry(s, PyInt0(Lower(s)))

is_constant(s) == IF s = "" THEN FALSE ELSE constant(s).ok

(***************************************************************************)
(* Python's integer operators on unbounded two's-complement integers.      *)
(***************************************************************************)
RECURSIVE BitAnd(_, _)
BitAnd(a, b) ==
    IF a = 0 \/ b = 0 THEN 0
    ELSE IF a = -1 THEN b
    ELSE IF b = -1 THEN a
    ELSE (a % 2) * (b % 2) + 2 * BitAnd(a \div 2, b \div 2)

RECURSIVE BitOr(_, _)
BitOr(a, b) ==
    IF a = 0 THEN b
    ELSE IF b = 0 THEN a
    ELSE IF a = -1 \/ b = -1 THEN -1
    ELSE (IF a % 2 = 1 \/ b % 2 = 1 THEN 1 ELSE 0) + 2 * BitOr(a \div 2, b \div 2)

BitNot(a) == (0 - a) - 1

RECURSIVE Pow2(_)
Pow2(n) == IF n = 0 THEN 1 ELSE 2 * Pow2(n - 1)

\* a // b: the quotient rounded toward minus infinity
FloorDiv(a, b) == IF b > 0 THEN a \div b ELSE (0 - a) \div (0 - b)

\* a % b: the remainder that goes with //, of the sign of b
PyMod(a, b) == a - b * FloorDiv(a, b)

(***************************************************************************)
(* evaluate(s, checkonly), reading the global symbol table.                *)
(***************************************************************************)
\* max([s.rfind(c) for c in OPERATORS])
\* a variant that splits at the first operator instead of the last
FirstOperator(s) == First({i \in 1..Len(s) : InStr(Ch(s, i), OPERATORS)})

LastOperator(s) == Last({i \in 1..Len(s) : InStr(Ch(s, i), OPERATORS)})

\* the match statement on the binary operator
ApplyBinary(op, p1, p2) ==
    CASE op = "+" -> Ret(p1 + p2)
      [] op = "-" -> Ret(p1 - p2)
      [] op = "*" -> Ret(p1 * p2)
      [] op = "/" -> IF p2 = 0 THEN Raise("ZeroDivisionError", "integer division or modulo by zero")
                     ELSE Ret(FloorDiv(p1, p2))
      [] op = "%" -> IF p2 = 0 THEN Raise("ZeroDivisionError", "integer division or modulo by zero")
                     ELSE Ret(PyMod(p1, p2))
      [] op = "&" -> Ret(BitAnd(p1, p2))
      [] op = "|" -> Ret(BitOr(p1, p2))
      [] op = "<" -> IF p2 < 0 THEN Raise("ValueError", "negative shift count")
                     ELSE Ret(p1 * Pow2(p2))
      [] op = ">" -> IF p2 < 0 THEN Raise("ValueError", "negative shift count")
                     ELSE Ret(p1 \div Pow2(p2))
      [] OTHER -> Raise("Exception", "Unimplemented expression operator [" \o op \o "]")

\* the match statement on the unary operator
ApplyUnary(op, uval) ==
    CASE op = "-" -> Ret(0 - uval)
      [] op = "+" -> Ret(uval)
      [] OTHER -> Ret(BitNot(uval))

RECURSIVE evaluate(_, _, _)
evaluate(s, symbols, checkonly) ==
    IF s = ""
    THEN Raise("Exception", "Unary negation can only be used as first element in an expression or parenthetical expression")
    ELSE IF RFind(s, "(") # 0
    THEN \* reduce the rightmost parenthetical expression to the text of its value
         LET ploc == RFind(s, "(")
             pend == FindFrom(s, ")", ploc)
         IN IF pend = 0 THEN Raise("Exception", "No matching ) in expression")
            ELSE LET pval == evaluate(Slice(s, ploc + 1, pend - 1), symbols, checkonly)
                 IN IF ~pval.ok THEN pval
                    ELSE evaluate(Slice(s, 1, ploc - 1) \o Str(pval.val) \o From(s, pend + 1),
                                  symbols, checkonly)
    ELSE IF Contains(s, ")") THEN Raise("Exception", "Dangling ) in expression")
    ELSE IF EndsWith(s, "\\")
    THEN Raise("Exception", "Dangling \\ in expression (probably in last line of file)")
    ELSE LET found == LastOperator(s)
             unary == found # 0 /\ InStr(Ch(s, found), UNARYOPERATORS)
             oploc == IF unary /\ found > 1 /\ InStr(Ch(s, found - 1), OPERATORS)
                      THEN found - 1 ELSE found
         IN IF found # 0
            THEN IF unary /\ found = 1
                 THEN LET uval == evaluate(From(s, 2), symbols, checkonly)
                      IN IF ~uval.ok THEN uval ELSE ApplyUnary(Ch(s, 1), uval.val)
                 ELSE LET p1 == evaluate(Slice(s, 1, oploc - 1), symbols, checkonly)
                          p2 == evaluate(From(s, oploc + 1), symbols, checkonly)
                      IN IF ~p1.ok THEN p1
                         ELSE IF ~p2.ok THEN p2
                         ELSE ApplyBinary(Ch(s, oploc), p1.val, p2.val)
            ELSE IF is_constant(s) THEN constant(s)
            ELSE IF is_symbol(s)
                 THEN IF s \in DOMAIN symbols THEN Ret(symbols[s])
                      ELSE IF checkonly THEN Ret(1)
                      ELSE Raise("Exception", "Undefined symbol [" \o s \o "] in expression")
            ELSE Raise("Exception", "Cannot parse expression [" \o s \o "]")

is_expression(s, symbols) == evaluate(s, symbols, TRUE).ok

(***************************************************************************)
(* Operations are the source's dictionaries: records whose fields are the  *)
(* keys present, so "k in o" of the source is k \in DOMAIN o here.         *)
(***************************************************************************)
Has(o, k) == k \in DOMAIN o

\* o[k] = v, adding the key when it is absent
Put(o, k, v) == [f \in DOMAIN o \cup {k} |-> IF f = k THEN v ELSE o[f]]

\* o.get(k, default)
Get(o, k, default) == IF Has(o, k) THEN o[k] ELSE default

(***************************************************************************)
(* The bitmap files Image.open can open, each with what import_image       *)
(* returns for it: the size text and the list of word literals.            *)
(***************************************************************************)
ImageFiles ==
    "dot.png" :> [size |-> "2", words |-> <<"0b1000000000000000", "0b0000000000000001">>]

import_image(file) == <<ImageFiles[file].size, ImageFiles[file].words>>

(***************************************************************************)
(* operation(line): parse one normalized line.  line is [num, text, n,     *)
(* original]: the line number, the normalized text, the number n of        *)
(* consecutive source lines that carry this same text (every such line     *)
(* parses to the same operation, so a run of them is kept as one entry of  *)
(* length n), and the original text.  The lines the assembler makes up for *)
(* the operations it synthesizes are pairs: they have no original text.    *)
(***************************************************************************)
\* $name(size)=v1,...: the declaration, evsize being what evaluate(vsize) gave
SizedDeclaration(vname, vsize, vlist, evsize, line) ==
    IF ~evsize.ok THEN evsize
    ELSE IF Len(vlist) # evsize.val
    THEN Ret([cType |-> "E", line |-> line,
              error |-> "Variable size does not match number of Values provided"])
    ELSE Ret([cType |-> "V", symbol |-> vname, expression |-> vsize, init |-> vlist,
              line |-> line])

\* $name(*)=file: parts is vinit.split('=')
ImageDeclaration(vname, parts, line) ==
    IF Len(parts) = 2 /\ parts[2] \in DOMAIN ImageFiles
    THEN Ret([cType |-> "V", symbol |-> vname, expression |-> import_image(parts[2])[1],
              init |-> import_image(parts[2])[2], line |-> line])
    ELSE Ret([cType |-> "E", line |-> line, error |-> "File not found, or not image"])

\* $name(size)...: after vsize, vinit = vsize.split(')', 1); parts is vinit.split('=')
ClosedDeclaration(vname, vsize, parts, line, symbols) ==
    IF vsize = "*" THEN ImageDeclaration(vname, parts, line)
    ELSE IF Len(parts) > 1   \* '=' in vinit
    THEN IF Len(parts) # 2
         THEN Raise("ValueError", "too many values to unpack (expected 2)")
         ELSE SizedDeclaration(vname, vsize, Split(parts[2], ","),
                               evaluate(vsize, symbols, FALSE), line)
    ELSE Ret([cType |-> "V", symbol |-> vname, expression |-> vsize, init |-> <<>>,
              line |-> line])

\* $name(...: after vname, vsize = o.split('(', 1)
OpenedDeclaration(vname, vsize, line, symbols) ==
    IF ~Contains(vsize, ")")
    THEN Ret([cType |-> "E", line |-> line, error |-> "Variable definition is missing closing )"])
    ELSE ClosedDeclaration(IF vname = "_" THEN "__Anon__" \o Str(line.num) ELSE vname,
                           Split1(vsize, ")")[1], Split(Split1(vsize, ")")[2], "="),
                           line, symbols)

\* the $name(...) forms
VariableWithParen(o, line, symbols) ==
    OpenedDeclaration(Split1(o, "(")[1], Split1(o, "(")[2], line, symbols)

\* $name=v1,...: vlist is vinit.split(',')
ScalarDeclaration(vname, vlist, line) ==
    IF Len(vlist) # 1
    THEN Ret([cType |-> "E", line |-> line,
              error |-> "Variable size (1) does not match number of Values provided"])
    ELSE Ret([cType |-> "V", symbol |-> vname, expression |-> "1", init |-> vlist,
              line |-> line])

\* $name@v1,...: vlist is vinit.split(',')
AliasDeclaration(vname, vlist, line) ==
    IF Len(vlist) # 1
    THEN Ret([cType |-> "E", line |-> line,
              error |-> "Variable alias can only one initializer value"])
    ELSE Ret([cType |-> "V", symbol |-> vname, expression |-> vlist[1], alias |-> TRUE,
              line |-> line])

\* the $ forms
VariableDeclaration(o, line, symbols) ==
    IF Contains(o, "(") THEN VariableWithParen(o, line, symbols)
    ELSE IF Contains(o, "=")
    THEN ScalarDeclaration(Split1(o, "=")[1], Split(Split1(o, "=")[2], ","), line)
    ELSE IF Contains(o, "@")
    THEN AliasDeclaration(Split1(o, "@")[1], Split(Split1(o, "@")[2], ","), line)
    ELSE Ret([cType |-> "V", symbol |-> o, expression |-> "1", line |-> line])

\* a := operation: olist is olist[0].upper().split(':=')
PreciseOperation(olist, jmp, line) ==
    IF Len(olist) = 2
    THEN Ret([cType |-> "K", dest |-> olist[1], comp |-> olist[2], jump |-> jmp, line |-> line])
    ELSE Ret([cType |-> "E", line |-> line, error |-> "Multiple :=s in operation"])

\* a C-operation: olist is olist[0].upper().split('=')
PlainOperation(olist, jmp, line) ==
    IF Len(olist) = 1
    THEN Ret([cType |-> "C", dest |-> "NULL", comp |-> olist[1], jump |-> jmp, line |-> line])
    ELSE IF Len(olist) = 2
    THEN Ret([cType |-> "C", dest |-> olist[1], comp |-> olist[2], jump |-> jmp, line |-> line])
    ELSE Ret([cType |-> "E", line |-> line, error |-> "Multiple =s in operation"])

\* the operation whose pieces around ; are olist, with its jump
JumpOperation(olist, jmp, line) ==
    IF Contains(olist[1], ":=") THEN PreciseOperation(Split(Upper(olist[1]), ":="), jmp, line)
    ELSE PlainOperation(Split(Upper(olist[1]), "="), jmp, line)

\* olist is o.split(';')
SplitOperation(olist, line) ==
    IF Len(olist) > 2
    THEN Ret([cType |-> "E", line |-> line, error |-> "Multiple ;s in operation"])
    ELSE JumpOperation(olist, IF Len(olist) = 2 THEN Upper(olist[2]) ELSE "NULL", line)

\* the C-operations and the precise-ALU (K) operations
ComputeOperation(o, line) == SplitOperation(Split(o, ";"), line)

\* a # declaration: cut is o.split('=', 1)
ConstantDeclaration(cut, line) ==
    Ret([cType |-> "D", symbol |-> cut[1], expression |-> cut[2], line |-> line])

\* an @-operation on the text o
AddressOperation(o, line, symbols) ==
    IF is_symbol(o) THEN Ret([cType |-> "A", symbol |-> o, line |-> line])
    ELSE IF is_constant(o) THEN Ret([cType |-> "A", constant |-> o, line |-> line])
    ELSE IF is_expression(o, symbols) THEN Ret([cType |-> "A", expression |-> o, line |-> line])
    ELSE Ret([cType |-> "A", line |-> line,
              error |-> "@ Values is not a symbol, constant or expression"])

\* the statement o of the line, rest being o[1:]
Statement(o, rest, line, symbols) ==
    IF Ch(o, 1) = "@" THEN AddressOperation(rest, line, symbols)
    ELSE IF StartsWith(o, "(")
    THEN IF EndsWith(o, ")")
         THEN Ret([cType |-> "L", symbol |-> Slice(o, 2, Len(o) - 1), line |-> line])
         ELSE Ret([cType |-> "E", line |-> line, error |-> "Label definition does not end in )"])
    ELSE IF StartsWith(o, "$") THEN VariableDeclaration(rest, line, symbols)
    ELSE IF StartsWith(o, "#")
    THEN IF Contains(rest, "=") THEN ConstantDeclaration(Split1(rest, "="), line)
         ELSE Ret([cType |-> "E", line |-> line,
                   error |-> "Constant definition does contain a Values"])
    ELSE ComputeOperation(o, line)

operation(line, symbols) == Statement(line.text, From(line.text, 2), line, symbols)

(***************************************************************************)
(* The global symbol table as the module sets it up, and the lookup tables *)
(* of the instruction encoder.                                             *)
(***************************************************************************)
PredefinedSymbols ==
    ("R0" :> 0) @@
    ("R1" :> 1) @@
    ("R2" :> 2) @@
    ("R3" :> 3) @@
    ("R4" :> 4) @@
    ("R5" :> 5) @@
    ("R6" :> 6) @@
    ("R7" :> 7) @@
    ("R8" :> 8) @@
    ("R9" :> 9) @@
    ("R10" :> 10) @@
    ("R11" :> 11) @@
    ("R12" :> 12) @@
    ("R13" :> 13) @@
    ("R14" :> 14) @@
    ("R15" :> 15) @@
    ("SP" :> 0) @@
    ("LCL" :> 1) @@
    ("ARG" :> 2) @@
    ("THIS" :> 3) @@
    ("THAT" :> 4) @@
    ("SCREEN" :> 16384) @@
    ("KBD" :> 24576) @@
    ("KBD_SPACE" :> 32) @@
    ("KBD_NEWLINE" :> 128) @@
    ("KBD_BACKSPACE" :> 129) @@
    ("KBD_LEFTARROW" :> 130) @@
    ("KBD_UPARROW" :> 131) @@
    ("KBD_RIGHTARROW" :> 132) @@
    ("KBD_DOWNARROW" :> 133) @@
    ("KBD_HOME" :> 134) @@
    ("KBD_END" :> 135) @@
    ("KBD_PAGEUP" :> 136) @@
    ("KBD_PAGEDOWN" :> 137) @@
    ("KBD_INSERT" :> 138) @@
    ("KBD_DELETE" :> 139) @@
    ("KBD_ESC" :> 140) @@
    ("KBD_F1" :> 141) @@
    ("KBD_F2" :> 142) @@
    ("KBD_F3" :> 143) @@
    ("KBD_F4" :> 144) @@
    ("KBD_F5" :> 145) @@
    ("KBD_F6" :> 146) @@
    ("KBD_F7" :> 147) @@
    ("KBD_F8" :> 148) @@
    ("KBD_F9" :> 149) @@
    ("KBD_F10" :> 150) @@
    ("KBD_F11" :> 151) @@
    ("KBD_F12" :> 152)

JMPS ==
    ("NULL" :> 0) @@
    ("JGT" :> 1) @@
    ("JEQ" :> 2) @@
    ("JGE" :> 3) @@
    ("JLT" :> 4) @@
    ("JNE" :> 5) @@
    ("JLE" :> 6) @@
    ("JMP" :> 7)

DESTS ==
    ("" :> 0) @@
    ("NULL" :> 0) @@
    ("M" :> 8) @@
    ("D" :> 16) @@
    ("MD" :> 24) @@
    ("A" :> 32) @@
    ("AM" :> 40) @@
    ("AD" :> 48) @@
    ("AMD" :> 56) @@
    ("DM" :> 24) @@
    ("MA" :> 40) @@
    ("DA" :> 48) @@
    ("ADM" :> 56) @@
    ("MAD" :> 56) @@
    ("MDA" :> 56) @@
    ("DAM" :> 56) @@
    ("DMA" :> 56)

COMPS ==
    ("0" :> 2688) @@
    ("1" :> 4032) @@
    ("-1" :> 3712) @@
    ("D" :> 768) @@
    ("A" :> 3072) @@
    ("!D" :> 832) @@
    ("!A" :> 3136) @@
    ("-D" :> 960) @@
    ("-A" :> 3264) @@
    ("D+1" :> 1984) @@
    ("A+1" :> 3520) @@
    ("D-1" :> 896) @@
    ("A-1" :> 3200) @@
    ("D+A" :> 128) @@
    ("D-A" :> 1216) @@
    ("A-D" :> 448) @@
    ("D&A" :> 0) @@
    ("D|A" :> 1344) @@
    ("A+D" :> 128) @@
    ("A&D" :> 0) @@
    ("A|D" :> 1344) @@
    ("M" :> 7168) @@
    ("!M" :> 7232) @@
    ("-M" :> 7360) @@
    ("M+1" :> 7616) @@
    ("M-1" :> 7296) @@
    ("D+M" :> 4224) @@
    ("D-M" :> 5312) @@
    ("M-D" :> 4544) @@
    ("D&M" :> 4096) @@
    ("D|M" :> 5440) @@
    ("M+D" :> 4224) @@
    ("M&D" :> 4096) @@
    ("M|D" :> 5440) @@
    ("~D" :> 832) @@
    ("~A" :> 3136) @@
    ("~M" :> 7232) @@
    ("-2" :> 3968) @@
    ("D^A" :> 64) @@
    ("A^D" :> 64) @@
    ("D_A" :> 1280) @@
    ("A_D" :> 1280) @@
    ("D^M" :> 4160) @@
    ("M^D" :> 4160) @@
    ("D_M" :> 5376) @@
    ("M_D" :> 5376) @@
    ("0XFFFF" :> 3712) @@
    ("0X0000" :> 2688) @@
    ("0X0001" :> 4032)

XOPS ==
    ("0" :> 2048) @@
    ("-1" :> 3072) @@
    ("D" :> 0) @@
    ("!D" :> 1024) @@
    ("~D" :> 1024)

YOPS ==
    ("0" :> 512) @@
    ("-1" :> 768) @@
    ("D" :> 0) @@
    ("!D" :> 256) @@
    ("~D" :> 256) @@
    ("M" :> 4096) @@
    ("!M" :> 4352) @@
    ("~M" :> 4352)

FUNCS ==
    ("&" :> 0) @@
    ("+" :> 128)

(***************************************************************************)
(* codegen(o): the operation with its code, or with an error.  The result  *)
(* is Ret(operation), or Raise for the KeyError of an unknown symbol.      *)
(***************************************************************************)
\* the operation with the warning of a value out of range
RangeWarning(o, av) ==
    IF av < -16384 \/ 32767 < av
    THEN Put(o, "warning", "@expression out of -16384..32767 range; lower 15 bits used")
    ELSE o

\* the try/except around evaluate(o['expression']), r being what evaluate gave
ExpressionValue(o, r) ==
    IF r.ok THEN [o |-> RangeWarning(o, r.val), av |-> r.val]
    ELSE IF r.exc = "ZeroDivisionError"
    THEN [o |-> Put(o, "error", "Divide by 0 error in expression"), av |-> 0]
    ELSE [o |-> Put(o, "error", r.msg), av |-> 0]

\* the value of an @-instruction with the error and warning it sets
AddressValue(o, symbols) ==
    IF Has(o, "constant") THEN [o |-> o, av |-> constant(o.constant).val]
    ELSE IF Has(o, "symbol") THEN [o |-> o, av |-> symbols[o.symbol]]
    ELSE ExpressionValue(o, evaluate(o.expression, symbols, FALSE))

\* o['code'] = av & 0x7fff
AddressCode(r) == Put(r.o, "code", BitAnd(r.av, 32767))

CodegenAddress(o, symbols) ==
    IF ~Has(o, "constant") /\ Has(o, "symbol") /\ o.symbol \notin DOMAIN symbols
    THEN Raise("KeyError", o.symbol)
    ELSE Ret(AddressCode(AddressValue(o, symbols)))

\* a variant whose dest field is one bit too far to the left
DestAndJumpShifted(o, c) ==
    IF o.dest \notin DOMAIN DESTS THEN Put(o, "error", "Unknown destination " \o o.dest)
    ELSE IF o.jump \notin DOMAIN JMPS THEN Put(o, "error", "Unknown jump " \o o.jump)
    ELSE Put(o, "code", c + 2 * DESTS[o.dest] + JMPS[o.jump])

\* the dest and jump fields, added to the code c built so far
DestAndJump(o, c) ==
    IF o.dest \notin DOMAIN DESTS THEN Put(o, "error", "Unknown destination " \o o.dest)
    ELSE IF o.jump \notin DOMAIN JMPS THEN Put(o, "error", "Unknown jump " \o o.jump)
    ELSE Put(o, "code", c + DESTS[o.dest] + JMPS[o.jump])

CodegenCompute(o) ==
    IF o.comp \notin DOMAIN COMPS THEN Put(o, "error", "Unknown alu operation " \o o.comp)
    ELSE DestAndJump(o, CINSTR + COMPS[o.comp])

\* the table entries the text starts with
PrefixMatches(table, oc) == {x \in DOMAIN table : StartsWith(oc, x)}

TheMatch(table, oc) == CHOOSE x \in PrefixMatches(table, oc) : TRUE

\* the Y-operation of the text oc, then the end of the text, the dest and the jump
PreciseY(o, oc, c) ==
    IF Cardinality(PrefixMatches(YOPS, oc)) # 1
    THEN Put(o, "error", "Unknown custom ALU operation X-operation")
    ELSE IF From(oc, Len(TheMatch(YOPS, oc)) + 1) # ""
    THEN Put(o, "error", "Extra symbols in custom ALU operation")
    ELSE DestAndJump(o, c + YOPS[TheMatch(YOPS, oc)])

\* the function of the text oc, then what follows it
PreciseFunction(o, oc, c) ==
    IF Cardinality(PrefixMatches(FUNCS, oc)) # 1
    THEN Put(o, "error", "Unknown custom ALU operation function")
    ELSE PreciseY(o, From(oc, Len(TheMatch(FUNCS, oc)) + 1), c + FUNCS[TheMatch(FUNCS, oc)])

\* the X-operation of the text oc, then what follows it
PreciseX(o, oc, c) ==
    IF Cardinality(PrefixMatches(XOPS, oc)) # 1
    THEN Put(o, "error", "Unknown custom ALU operation X-operation")
    ELSE PreciseFunction(o, From(oc, Len(TheMatch(XOPS, oc)) + 1), c + XOPS[TheMatch(XOPS, oc)])

CodegenPrecise(o) ==
    IF StartsWith(o.comp, "!(") \/ StartsWith(o.comp, "~(")
    THEN IF EndsWith(o.comp, ")")
         THEN PreciseX(o, Slice(o.comp, 3, Len(o.comp) - 1), CINSTR + NOTALU)
         ELSE Put(o, "error", "No closing parenthesis on custom ALU operation")
    ELSE PreciseX(o, o.comp, CINSTR + ALU)

codegen(o, symbols) ==
    CASE o.cType = "A" -> CodegenAddress(o, symbols)
      [] o.cType = "C" -> Ret(CodegenCompute(o))
      [] o.cType = "K" -> Ret(CodegenPrecise(o))
      [] OTHER -> Ret(o)

(***************************************************************************)
(* Lists, as the source's Python lists.                                    *)
(***************************************************************************)
InList(x, list) == \E i \in DOMAIN list : list[i] = x

RECURSIVE Flatten(_)
\* the concatenation of a list of lists
Flatten(ll) == IF ll = <<>> THEN <<>> ELSE Head(ll) \o Flatten(Tail(ll))

AnyError(oplist) == \E i \in DOMAIN oplist : Has(oplist[i], "error")

(***************************************************************************)
(* The synthesis of the initialization code.                               *)
(***************************************************************************)
RECURSIVE StrLess(_, _)
\* a < b of two Python strings: by code point, a proper prefix first
StrLess(a, b) ==
    IF b = "" THEN FALSE
    ELSE IF a = "" THEN TRUE
    ELSE IF Ch(a, 1) # Ch(b, 1) THEN Ord(Ch(a, 1)) < Ord(Ch(b, 1))
    ELSE StrLess(From(a, 2), From(b, 2))

\* a < b of two (val, symbol, offset, line_number) tuples
InitLess(a, b) ==
    IF a.val # b.val THEN a.val < b.val
    ELSE IF a.symbol # b.symbol THEN StrLess(a.symbol, b.symbol)
    ELSE IF a.offset # b.offset THEN a.offset < b.offset
    ELSE a.line_number < b.line_number

RECURSIVE InsertSorted(_, _)
InsertSorted(e, list) ==
    IF list = <<>> THEN <<e>>
    ELSE IF InitLess(e, Head(list)) THEN <<e>> \o list
    ELSE <<Head(list)>> \o InsertSorted(e, Tail(list))

RECURSIVE SortInit(_)
\* initinfo.sort()
SortInit(list) == IF list = <<>> THEN <<>> ELSE InsertSorted(Head(list), SortInit(Tail(list)))

\* val if val >= 0 else 65536+val
ToUnsigned(val) == IF val >= 0 THEN val ELSE 65536 + val

\* what one initializer adds to initinfo and to initops, r being what
\* evaluate(expr) gave
Gathered(o, offset, expr, r) ==
    IF r.ok
    THEN [info |-> <<[val |-> ToUnsigned(r.val), symbol |-> o.symbol, offset |-> offset,
                      line_number |-> o.line.num]>>,
          bad |-> <<>>]
    ELSE [info |-> <<>>,
          bad |-> <<[cType |-> "A", expression |-> o.symbol \o "+" \o Str(offset),
                     line |-> o.line,
                     error |-> "Invalid constant initialization expression [" \o expr \o "]"]>>]

GatherOne(o, offset, symbols) ==
    Gathered(o, offset, o.init[offset + 1], evaluate(o.init[offset + 1], symbols, FALSE))

\* what the initializers of one operation add
GatherOperation(o, symbols) ==
    IF Has(o, "init") THEN [k \in 1..Len(o.init) |-> GatherOne(o, k - 1, symbols)] ELSE <<>>

\* initinfo and the error operations, from what each initializer added
Collected(all) ==
    [info |-> Flatten([k \in 1..Len(all) |-> all[k].info]),
     bad |-> Flatten([k \in 1..Len(all) |-> all[k].bad])]

\* the gathering loop over the operations and their initializers
Gather(oplist, symbols) ==
    Collected(Flatten([i \in 1..Len(oplist) |-> GatherOperation(oplist[i], symbols)]))

InitLine(e, text) == [num |-> e.line_number, text |-> text, n |-> 1]

\* the @-instruction on the text target
InitAddress(e, target) ==
    [cType |-> "A", expression |-> target, line |-> InitLine(e, "@" \o target)]

StoreTarget(e) == InitAddress(e, e.symbol \o "+" \o Str(e.offset))

InitCompute(e, dest, comp) ==
    [cType |-> "C", dest |-> dest, comp |-> comp, jump |-> "NULL",
     line |-> InitLine(e, dest \o "=" \o comp)]

\* a variant that increments D after the constant 1 too
LoadDIncrementsAfterOne(e, lastval) ==
    IF e.val = lastval THEN <<>>
    ELSE IF e.val = lastval + 1 THEN <<InitCompute(e, "D", "D+1")>>
    ELSE IF e.val < 32768
    THEN <<InitAddress(e, Str(e.val)), InitCompute(e, "D", "A")>>
    ELSE <<InitAddress(e, Str(BitAnd(BitNot(e.val), 65535))), InitCompute(e, "D", "!A")>>

\* the instructions that bring the value of e into D, given the last value
LoadD(e, lastval) ==
    IF e.val = lastval THEN <<>>
    ELSE IF e.val = lastval + 1 /\ e.val # 2 THEN <<InitCompute(e, "D", "D+1")>>
    ELSE IF e.val < 32768
    THEN <<InitAddress(e, Str(e.val)), InitCompute(e, "D", "A")>>
    ELSE <<InitAddress(e, Str(BitAnd(BitNot(e.val), 65535))), InitCompute(e, "D", "!A")>>

\* one turn of the code generation loop
InitOne(e, lastval) ==
    IF e.val \in {0, 1} THEN <<StoreTarget(e), InitCompute(e, "M", Str(e.val))>>
    ELSE IF e.val = 65535 THEN <<StoreTarget(e), InitCompute(e, "M", "-1")>>
    ELSE LoadD(e, lastval) \o <<StoreTarget(e), InitCompute(e, "M", "D")>>

RECURSIVE InitBody(_, _)
InitBody(info, lastval) ==
    IF info = <<>> THEN <<>>
    ELSE InitOne(Head(info), lastval) \o InitBody(Tail(info), Head(info).val)

InitReturn ==
    <<[cType |-> "A", expression |-> "__INIT.Ret",
       line |-> [num |-> -3, text |-> "@__INIT.Ret", n |-> 1]],
      [cType |-> "C", dest |-> "NULL", comp |-> "0", jump |-> "JMP",
       line |-> [num |-> -3, text |-> "0;JMP", n |-> 1]]>>

\* initops, as the block builds it
Emitted(g) == g.bad \o InitBody(SortInit(g.info), -1) \o InitReturn

InitOps(oplist, symbols) == Emitted(Gather(oplist, symbols))

\* the operations put around the program when initialization is needed
Scaffold(oplist) ==
    <<[cType |-> "A", expression |-> "__INIT",
       line |-> [num |-> -1, text |-> "@__INIT", n |-> 1]],
      [cType |-> "C", dest |-> "NULL", comp |-> "0", jump |-> "JMP",
       line |-> [num |-> -1, text |-> "0;JMP", n |-> 1]],
      [cType |-> "L", symbol |-> "__INIT.Ret",
       line |-> [num |-> -1, text |-> "(__INIT.Ret)", n |-> 1]]>>
    \o oplist \o
    <<[cType |-> "L", symbol |-> "__INIT", line |-> [num |-> -2, text |-> "(__INIT)", n |-> 1]]>>

(***************************************************************************)
(* The state of one run of avengers_assemble.                              *)
(*   lines      the normalized lines of the file, each [num, text, n]      *)
(*   ops        the operations                                             *)
(*   symbols    the global symbol table                                    *)
(*   address_labels .. ucase_symbols   the global tracking lists           *)
(*   pc, ram    the program counter and the RAM cursor                     *)
(*   init_needed                                                           *)
(*   phase, idx the place in the function and in its current loop          *)
(*   hackfile   the .hack file: whether it was written, and its words as    *)
(*              [code, n] runs                                             *)
(*   status     "running", then how the run ends: "exit(0)", "exit(1)", or *)
(*              "exception" for an exception that nothing catches (the     *)
(*              interpreter then ends with a traceback and status 1)       *)
(*   arg, res   the argument and the result of a function applied alone    *)
(***************************************************************************)
VARIABLES lines, ops, symbols, address_labels, declared_values, declared_variables,
          implicit_variables, ucase_symbols, pc, ram, init_needed, phase, idx,
          hackfile, status, arg, res

vars == <<lines, ops, symbols, address_labels, declared_values, declared_variables,
          implicit_variables, ucase_symbols, pc, ram, init_needed, phase, idx,
          hackfile, status, arg, res>>

tables == <<symbols, address_labels, declared_values, declared_variables,
            implicit_variables, ucase_symbols>>

\* the globals as the module initializes them, before any pass
Globals ==
    /\ symbols = PredefinedSymbols
    /\ address_labels = <<>>
    /\ declared_values = <<>>
    /\ declared_variables = <<>>
    /\ implicit_variables = <<>>
    /\ ucase_symbols = <<>>

SetError(i, text) == ops' = [ops EXCEPT ![i] = Put(ops[i], "error", text)]

(***************************************************************************)
(* Parsing: ops = [operation(l) for l in lines], and the check of the last *)
(* line.  An exception of operation leaves the function.                   *)
(***************************************************************************)
ParsedOps(ls, table) == [i \in 1..Len(ls) |-> operation(ls[i], table)]

LastLineCheck(oplist, ls) ==
    IF EndsWith(ls[Len(ls)].text, "\\")
    THEN [oplist EXCEPT ![Len(ls)] =
             Put(oplist[Len(ls)], "error",
                 "Last line in the file contains a line-continuation character")]
    ELSE oplist

\* what becomes of the run once every line has been through operation
Parsed(parsed) ==
    IF \E i \in 1..Len(lines) : ~parsed[i].ok
    THEN /\ phase' = "aborted"
         /\ status' = "exception"
         /\ ops' = ops
    ELSE /\ phase' = "prepare"
         /\ status' = status
         /\ ops' = LastLineCheck([i \in 1..Len(lines) |-> parsed[i].val], lines)

Parse ==
    /\ phase = "parse"
    /\ Parsed(ParsedOps(lines, symbols))
    /\ UNCHANGED <<lines, tables, pc, ram, init_needed, idx, hackfile, arg, res>>

(***************************************************************************)
(* The warnings on __symbols, init_needed, and the scaffold.               *)
(***************************************************************************)
DunderWarning(o) ==
    IF o.cType = "A" /\ StartsWith(Get(o, "symbol", ""), "__")
    THEN Put(o, "warning", "Use of __symbol in code")
    ELSE o

InitNeeded(oplist) == \E i \in DOMAIN oplist : Has(oplist[i], "init")

\* the operations as the passes receive them
Prepared(warned) ==
    /\ init_needed' = InitNeeded(warned)
    /\ ops' = IF InitNeeded(warned) THEN Scaffold(warned) ELSE warned

Prepare ==
    /\ phase = "prepare"
    /\ Prepared([i \in 1..Len(ops) |-> DunderWarning(ops[i])])
    /\ pc' = 0
    /\ idx' = 1
    /\ phase' = "pass1"
    /\ UNCHANGED <<lines, tables, ram, hackfile, status, arg, res>>

(***************************************************************************)
(* Symbol table pass 1: the labels, and the program counter.               *)
(***************************************************************************)
\* the operation types that take a word of ROM
CountsInPass1(ct) == ct = "A" \/ ct = "C"

\* the error a label gets, "" when it is accepted
LabelError(sym, table, ucase) ==
    IF sym = "" THEN "Empty symbol"
    ELSE IF ~is_symbol(sym) THEN "Badly formed symbol"
    ELSE IF sym \in DOMAIN table THEN "Symbol previously defined"
    ELSE IF InList(Upper(sym), ucase) THEN "Symbol previously defined (case-insensitive)"
    ELSE ""

\* the label o, bad being the error found in its symbol
Pass1Label(o, bad) ==
    IF bad # ""
    THEN /\ SetError(idx, bad)
         /\ UNCHANGED <<symbols, address_labels, ucase_symbols, pc>>
    ELSE /\ symbols' = Put(symbols, o.symbol, pc)
         /\ address_labels' = Append(address_labels, o.symbol)
         /\ ucase_symbols' = Append(ucase_symbols, Upper(o.symbol))
         /\ UNCHANGED <<ops, pc>>

Pass1Operation(o) ==
    IF o.cType = "L"
    THEN Pass1Label(o, LabelError(o.symbol, symbols, ucase_symbols))
    ELSE /\ pc' = IF CountsInPass1(o.cType) THEN pc + o.line.n ELSE pc
         /\ UNCHANGED <<ops, symbols, address_labels, ucase_symbols>>

Pass1Step ==
    /\ phase = "pass1"
    /\ idx <= Len(ops)
    /\ Pass1Operation(ops[idx])
    /\ idx' = idx + 1
    /\ UNCHANGED <<lines, declared_values, declared_variables, implicit_variables, ram,
                   init_needed, phase, hackfile, status, arg, res>>

EndPass1 ==
    /\ phase = "pass1"
    /\ idx > Len(ops)
    /\ phase' = "pass2"
    /\ ram' = 16
    /\ idx' = 1
    /\ UNCHANGED <<lines, ops, tables, pc, init_needed, hackfile, status, arg, res>>

(***************************************************************************)
(* Symbol table pass 2: the # and $ declarations.                          *)
(***************************************************************************)
\* a variant without the case-insensitive check
DeclarationErrorExact(sym, table, ucase) ==
    IF sym = "" THEN "Empty symbol"
    ELSE IF is_constant(sym) THEN "Cannot define a constant as a symbol"
    ELSE IF ~is_symbol(sym) THEN "Badly formed symbol"
    ELSE IF sym \in DOMAIN table THEN "Symbol previously defined"
    ELSE ""

\* the error the name of a declaration gets, "" when it is accepted
DeclarationError(sym, table, ucase) ==
    IF sym = "" THEN "Empty symbol"
    ELSE IF is_constant(sym) THEN "Cannot define a constant as a symbol"
    ELSE IF ~is_symbol(sym) THEN "Badly formed symbol"
    ELSE IF sym \in DOMAIN table THEN "Symbol previously defined"
    ELSE IF InList(Upper(sym), ucase) THEN "Symbol previously defined (case-insensitive)"
    ELSE ""

\* does the declaration take RAM?
Allocates(o) == o.cType = "V" /\ ~Has(o, "alias")

\* the value the declared symbol is bound to
BoundValue(o, cv, cursor) == IF Allocates(o) THEN cursor ELSE cv

\* a variant in which aliases and constants take RAM too
CursorAlwaysAdvances(o, cv, cursor) == cursor + cv

\* the RAM cursor after the declaration
CursorAfter(o, cv, cursor) == IF Allocates(o) THEN cursor + cv ELSE cursor

\* a variant that refuses the last word of RAM
OutOfRamAtCapacity(cursor) == cursor >= MAXRAM

OutOfRam(cursor) == cursor > MAXRAM

\* the error of the expression of a declaration, "" when it has a value
ExpressionError(r) ==
    IF r.ok THEN ""
    ELSE IF r.exc = "ZeroDivisionError" THEN "Divide by 0 error in expression"
    ELSE r.msg

\* the value of the expression, 1 when it has none
DeclaredValue(r) == IF r.ok THEN r.val ELSE 1

\* the declaration with the errors of its expression and of the allocation
Checked(o, r, cursor) ==
    IF Allocates(o) /\ OutOfRam(CursorAfter(o, DeclaredValue(r), cursor))
    THEN Put(o, "error", "Out of RAM (data) memory.")
    ELSE IF r.ok THEN o
    ELSE Put(o, "error", ExpressionError(r))

\* the declaration o whose symbol is accepted, r being what evaluate gave
Pass2Declare(o, r) ==
    /\ ops' = [ops EXCEPT ![idx] = Checked(o, r, ram)]
    /\ symbols' = Put(symbols, o.symbol, BoundValue(o, DeclaredValue(r), ram))
    /\ ram' = CursorAfter(o, DeclaredValue(r), ram)
    /\ declared_values' = IF o.cType = "D" THEN Append(declared_values, o.symbol)
                          ELSE declared_values
    /\ declared_variables' = IF o.cType = "V" THEN Append(declared_variables, o.symbol)
                             ELSE declared_variables
    /\ ucase_symbols' = Append(ucase_symbols, Upper(o.symbol))

\* the declaration o, bad being the error found in its symbol
Pass2Declaration(o, bad) ==
    IF bad # ""
    THEN /\ SetError(idx, bad)
         /\ UNCHANGED <<symbols, declared_values, declared_variables, ucase_symbols, ram>>
    ELSE Pass2Declare(o, evaluate(o.expression, symbols, FALSE))

Pass2Operation(o) ==
    IF o.cType \in {"V", "D"}
    THEN Pass2Declaration(o, DeclarationError(o.symbol, symbols, ucase_symbols))
    ELSE UNCHANGED <<ops, symbols, declared_values, declared_variables, ucase_symbols, ram>>

Pass2Step ==
    /\ phase = "pass2"
    /\ idx <= Len(ops)
    /\ Pass2Operation(ops[idx])
    /\ idx' = idx + 1
    /\ UNCHANGED <<lines, address_labels, implicit_variables, pc, init_needed, phase,
                   hackfile, status, arg, res>>

EndPass2 ==
    /\ phase = "pass2"
    /\ idx > Len(ops)
    /\ phase' = "pass3"
    /\ idx' = 1
    /\ UNCHANGED <<lines, ops, tables, pc, ram, init_needed, hackfile, status, arg, res>>

(***************************************************************************)
(* Symbol table pass 3: the symbols of the @-instructions.                 *)
(***************************************************************************)
\* a variant without the case-insensitive check
ReferenceErrorExact(sym, table, ucase) ==
    IF sym = "" THEN "Empty symbol"
    ELSE IF is_constant(sym) THEN "Cannot define a constant as a symbol"
    ELSE IF ~is_symbol(sym) THEN "Badly formed symbol"
    ELSE ""

\* the error an @symbol gets before any allocation, "" when there is none
ReferenceError(sym, table, ucase) ==
    IF sym = "" THEN "Empty symbol"
    ELSE IF is_constant(sym) THEN "Cannot define a constant as a symbol"
    ELSE IF ~is_symbol(sym) THEN "Badly formed symbol"
    ELSE IF sym \notin DOMAIN table /\ InList(Upper(sym), ucase)
         THEN "Symbol previously defined (case-insensitive)"
    ELSE ""

\* the @symbol of o, bad being the error found in the symbol
Pass3Reference(o, bad) ==
    IF bad # ""
    THEN /\ SetError(idx, bad)
         /\ UNCHANGED <<symbols, declared_variables, implicit_variables, ucase_symbols, ram>>
    ELSE IF o.symbol \in DOMAIN symbols
    THEN UNCHANGED <<ops, symbols, declared_variables, implicit_variables, ucase_symbols, ram>>
    ELSE /\ symbols' = Put(symbols, o.symbol, ram)
         /\ ram' = ram + 1
         /\ declared_variables' = Append(declared_variables, o.symbol)
         /\ implicit_variables' = Append(implicit_variables, o.symbol)
         /\ ucase_symbols' = Append(ucase_symbols, Upper(o.symbol))
         /\ IF OutOfRam(ram + 1) THEN SetError(idx, "Out of memory.") ELSE ops' = ops

Pass3Operation(o) ==
    IF o.cType = "A" /\ Has(o, "symbol")
    THEN Pass3Reference(o, ReferenceError(o.symbol, symbols, ucase_symbols))
    ELSE UNCHANGED <<ops, symbols, declared_variables, implicit_variables, ucase_symbols, ram>>

Pass3Step ==
    /\ phase = "pass3"
    /\ idx <= Len(ops)
    /\ Pass3Operation(ops[idx])
    /\ idx' = idx + 1
    /\ UNCHANGED <<lines, address_labels, declared_values, pc, init_needed, phase,
                   hackfile, status, arg, res>>

EndPass3 ==
    /\ phase = "pass3"
    /\ idx > Len(ops)
    /\ phase' = "init"
    /\ UNCHANGED <<lines, ops, tables, pc, ram, init_needed, idx, hackfile, status, arg, res>>

(***************************************************************************)
(* The first error gate and the initialization code.                       *)
(***************************************************************************)
RomFull(counter) == counter >= MAXROM

\* does the block that synthesizes the initialization code run?
SynthesisRuns(oplist, needed) == ~AnyError(oplist) /\ needed

\* ops[-1]['error'] = 'Program too large!'
TooLarge(oplist) ==
    [oplist EXCEPT ![Len(oplist)] = Put(oplist[Len(oplist)], "error", "Program too large!")]

\* ops = ops + initops, the program counter, and the check of the ROM
AddInit(initops) ==
    /\ pc' = pc + Len(initops)
    /\ ops' = IF RomFull(pc + Len(initops)) THEN TooLarge(ops \o initops) ELSE ops \o initops

InitSynthesis ==
    /\ phase = "init"
    /\ IF SynthesisRuns(ops, init_needed)
       THEN AddInit(InitOps(ops, symbols))
       ELSE UNCHANGED <<ops, pc>>
    /\ phase' = "codegen"
    /\ UNCHANGED <<lines, tables, ram, init_needed, idx, hackfile, status, arg, res>>

(***************************************************************************)
(* The second error gate and the code generation.                          *)
(***************************************************************************)
\* does the code generation run?
CodegenRuns(oplist) == ~AnyError(oplist)

\* ops = [codegen(o) for o in ops], coded being what codegen gave for each
Coded(coded) ==
    IF \E i \in 1..Len(ops) : ~coded[i].ok
    THEN /\ phase' = "aborted"
         /\ status' = "exception"
         /\ ops' = ops
    ELSE /\ phase' = "report"
         /\ ops' = [i \in 1..Len(ops) |-> coded[i].val]
         /\ status' = status

Codegen ==
    /\ phase = "codegen"
    /\ IF CodegenRuns(ops)
       THEN Coded([i \in 1..Len(ops) |-> codegen(ops[i], symbols)])
       ELSE /\ phase' = "report"
            /\ UNCHANGED <<ops, status>>
    /\ UNCHANGED <<lines, tables, pc, ram, init_needed, idx, hackfile, arg, res>>

(***************************************************************************)
(* The report: the errors and exit(1), or the .hack file and exit(0).      *)
(***************************************************************************)
\* does the run end without writing the file?
Fails(oplist) == AnyError(oplist)

\* does the printing of the errors and warnings read line[2] of a line that
\* has none?  The lines of the synthesized operations are pairs.
PrintFails(oplist) ==
    \E i \in DOMAIN oplist :
        /\ Has(oplist[i], "error") \/ Has(oplist[i], "warning")
        /\ ~Has(oplist[i].line, "original")

RECURSIVE Words(_)
\* [code for o in ops if 'code' in o], a run of n lines giving n words
Words(oplist) ==
    IF oplist = <<>> THEN <<>>
    ELSE (IF Has(Head(oplist), "code")
          THEN <<[code |-> Head(oplist).code, n |-> Head(oplist).line.n]>>
          ELSE <<>>) \o Words(Tail(oplist))

Report ==
    /\ phase = "report"
    /\ IF PrintFails(ops)
       THEN /\ status' = "exception"
            /\ hackfile' = hackfile
       ELSE IF Fails(ops)
       THEN /\ status' = "exit(1)"
            /\ hackfile' = hackfile
       ELSE /\ status' = "exit(0)"
            /\ hackfile' = [written |-> TRUE, words |-> Words(ops)]
    /\ phase' = "done"
    /\ UNCHANGED <<lines, ops, tables, pc, ram, init_needed, idx, arg, res>>

RunNext ==
    \/ Parse \/ Prepare
    \/ Pass1Step \/ EndPass1
    \/ Pass2Step \/ EndPass2
    \/ Pass3Step \/ EndPass3
    \/ InitSynthesis \/ Codegen \/ Report

(***************************************************************************)
(* The programs assembled.  Each is a file of 1..MaxLines lines drawn from *)
(* one family of lines; the families are chosen so that every pass, both   *)
(* gates and both capacity limits are exercised.  The lines are the        *)
(* normalized lines, after the joining of continued lines: a line that     *)
(* ends in a backslash can only be the last one.                           *)
(***************************************************************************)
MaxLines == 3

Once(texts) == {[text |-> t, n |-> 1] : t \in texts}

LabelFamily == Once({"(a)", "@a", "D=A", "D:=D+M", "$v"})

CaseFamily == Once({"(sp)", "@Sp", "$kbd", "#r0=1", "@SP"})

DuplicateFamily == Once({"$a=7", "$A(3)", "(a)", "#a=5", "$=1", "(1x)"})

RamFamily == Once({"$a(2)", "$b(3)", "$c@5", "#k=7", "$big(16366)", "@x"})

RomFamily ==
    Once({"$a=7", "D:=D+M"})
    \cup {[text |-> "D=A", n |-> k] : k \in {1, MAXROM - 9, MAXROM - 1}}

GateFamily == Once({"@__x", "@40000+0", "D=Q", "$a=zz", "$a=7", "(a"})

ParseFamily == Once({"$a(k)=1", "$a(2)=1=2", "$a(1/0)=1", "#k=1", "$p(*)=dot.png", "0;JMP\\"})

Families == {LabelFamily, CaseFamily, DuplicateFamily, RamFamily, RomFamily, GateFamily,
             ParseFamily}

\* no line but the last ends in a backslash
Joined(p) == \A i \in 1..(Len(p) - 1) : ~EndsWith(p[i].text, "\\")

\* the files of 1..MaxLines lines over a family, the lines numbered from 1
Numbered(chosen) ==
    {[i \in 1..Len(p) |-> [num |-> i, text |-> p[i].text, n |-> p[i].n,
                             original |-> p[i].text]] : p \in chosen}

Files(family) == Numbered({p \in UNION {[1..k -> family] : k \in 1..MaxLines} : Joined(p)})

Programs == UNION {Files(family) : family \in Families}

\* the result of a function that has not been applied yet
Pending == [ok |-> FALSE, exc |-> "pending", msg |-> ""]

\* the state before avengers_assemble, but for the lines of the file
Fresh ==
    /\ Globals
    /\ ops = <<>>
    /\ pc = 0
    /\ ram = 16
    /\ init_needed = FALSE
    /\ idx = 1
    /\ hackfile = [written |-> FALSE, words |-> <<>>]
    /\ status = "running"
    /\ res = Pending

Init ==
    /\ lines \in Programs
    /\ Fresh
    /\ phase = "parse"
    /\ arg = ""

Next == RunNext

Spec == Init /\ [][Next]_vars

(***************************************************************************)
(* evaluate applied alone.  arg is a parenthesis-free expression: a first  *)
(* operand, then up to MaxOperators pairs of a binary operator and an      *)
(* operand; res is what evaluate gives for its text.                       *)
(***************************************************************************)
MaxOperators == 2

Operands == {"0", "3", "R2"}

BinaryOperators == {"+", "-", "*", "/", "%", "&", "|", "<", ">"}

Pairs == {<<op, c>> : op \in BinaryOperators, c \in Operands}

\* 2+3*4 and 10-3*2
Examples ==
    {[first |-> "2", rest |-> <<<<"+", "3">>, <<"*", "4">>>>],
     [first |-> "10", rest |-> <<<<"-", "3">>, <<"*", "2">>>>]}

Expressions ==
    {[first |-> c, rest |-> r] :
        c \in Operands, r \in UNION {[1..k -> Pairs] : k \in 0..MaxOperators}}
    \cup Examples

RECURSIVE PairsText(_)
PairsText(rest) ==
    IF rest = <<>> THEN "" ELSE Head(rest)[1] \o Head(rest)[2] \o PairsText(Tail(rest))

\* the text of the expression
ExpressionText(e) == e.first \o PairsText(e.rest)

InitEvaluate ==
    /\ lines = <<>>
    /\ Fresh
    /\ phase = "evaluate"
    /\ arg \in Expressions

Evaluate ==
    /\ phase = "evaluate"
    /\ res = Pending
    /\ res' = evaluate(ExpressionText(arg), symbols, FALSE)
    /\ UNCHANGED <<lines, ops, tables, pc, ram, init_needed, phase, idx, hackfile, status, arg>>

NextEvaluate == Evaluate

SpecEvaluate == InitEvaluate /\ [][NextEvaluate]_vars

(***************************************************************************)
(* codegen applied alone.  arg is an Address, Compute or ExtendedCompute   *)
(* operation whose texts are in the tables, with the pieces it was built   *)
(* from; res is what codegen gives for it.                                 *)
(***************************************************************************)
MaxBits == 17

\* the values 2^k and 2^k - 1 up to MaxBits bits, of either sign
Magnitudes == UNION {{Pow2(k), Pow2(k) - 1} : k \in 0..MaxBits}

AddressValues == Magnitudes \cup {0 - v : v \in Magnitudes}

UnitLine(text) == [num |-> 1, text |-> text, n |-> 1, original |-> text]

AddressOperations ==
    {[op |-> [cType |-> "A", constant |-> Str(v), line |-> UnitLine("@" \o Str(v))],
      value |-> v] : v \in AddressValues}
    \cup {[op |-> [cType |-> "A", expression |-> Str(v) \o "+0",
                   line |-> UnitLine("@" \o Str(v) \o "+0")],
           value |-> v] : v \in AddressValues}
    \cup {[op |-> [cType |-> "A", symbol |-> sym, line |-> UnitLine("@" \o sym)],
           value |-> PredefinedSymbols[sym]] : sym \in {"R5", "SCREEN", "KBD"}}

ComputeOperations ==
    {[op |-> [cType |-> "C", dest |-> d, comp |-> c, jump |-> j, line |-> UnitLine(c)],
      fields |-> <<COMPS[c], DESTS[d], JMPS[j]>>] :
        c \in DOMAIN COMPS, d \in DOMAIN DESTS, j \in DOMAIN JMPS}

\* the comp texts of the precise format, each with the fields it names
PreciseComps ==
    {[text |-> x \o f \o y, fields |-> <<ALU, XOPS[x], FUNCS[f], YOPS[y]>>] :
        x \in DOMAIN XOPS, f \in DOMAIN FUNCS, y \in DOMAIN YOPS}
    \cup {[text |-> w \o x \o f \o y \o ")", fields |-> <<NOTALU, XOPS[x], FUNCS[f], YOPS[y]>>] :
        w \in {"!(", "~("}, x \in DOMAIN XOPS, f \in DOMAIN FUNCS, y \in DOMAIN YOPS}

PreciseOperations ==
    {[op |-> [cType |-> "K", dest |-> d, comp |-> c.text, jump |-> j, line |-> UnitLine(c.text)],
      fields |-> c.fields \o <<DESTS[d], JMPS[j]>>] :
        c \in PreciseComps, d \in {"NULL", "M", "AMD", "DA"}, j \in DOMAIN JMPS}

InitCodegen ==
    /\ lines = <<>>
    /\ Fresh
    /\ phase = "encode"
    /\ arg \in AddressOperations \cup ComputeOperations \cup PreciseOperations

Encode ==
    /\ phase = "encode"
    /\ res = Pending
    /\ res' = codegen(arg.op, symbols)
    /\ UNCHANGED <<lines, ops, tables, pc, ram, init_needed, phase, idx, hackfile, status, arg>>

NextCodegen == Encode

SpecCodegen == InitCodegen /\ [][NextCodegen]_vars

(***************************************************************************)
(* The precise format of the header comment, parsed and encoded.  arg is a *)
(* statement {AMD}:={0,-1,D,!D}{+,&}{0,-1,A,!A,M,!M}{;JMP}, with or        *)
(* without the !( ) around its comp; res is what codegen gives for the     *)
(* operation that operation makes of it.                                   *)
(***************************************************************************)
DocumentedX == {"0", "-1", "D", "!D"}

DocumentedF == {"+", "&"}

DocumentedY == {"0", "-1", "A", "!A", "M", "!M"}

DocumentedStatements ==
    [dest : {"A", "M", "D", "AMD"}, x : DocumentedX, f : DocumentedF, y : DocumentedY,
     wrapped : BOOLEAN, jump : {"", "JMP"}]

\* the comp of the statement
PreciseComp(a) == IF a.wrapped THEN "!(" \o a.x \o a.f \o a.y \o ")" ELSE a.x \o a.f \o a.y

\* the text of the statement
PreciseText(a) ==
    a.dest \o ":=" \o PreciseComp(a) \o (IF a.jump = "" THEN "" ELSE ";" \o a.jump)

\* codegen of what operation returned, an exception of operation going through
Encoded(r, table) == IF r.ok THEN codegen(r.val, table) ELSE r

InitPrecise ==
    /\ lines = <<>>
    /\ Fresh
    /\ phase = "precise"
    /\ arg \in DocumentedStatements

EncodePrecise ==
    /\ phase = "precise"
    /\ res = Pending
    /\ res' = Encoded(operation(UnitLine(PreciseText(arg)), symbols), symbols)
    /\ UNCHANGED <<lines, ops, tables, pc, ram, init_needed, phase, idx, hackfile, status, arg>>

NextPrecise == EncodePrecise

SpecPrecise == InitPrecise /\ [][NextPrecise]_vars

(***************************************************************************)
(* The assembler on programs of references: the references to undeclared   *)
(* symbols that pass 3 allocates, in either letter case, with a label, a   *)
(* declared array and a predefined symbol among them.                      *)
(***************************************************************************)
ImplicitFamily == Once({"@x", "@y", "@X", "$v(2)", "(y)", "@R3"})

SymbolPrograms == Files(ImplicitFamily)

InitSymbols ==
    /\ lines \in SymbolPrograms
    /\ Fresh
    /\ phase = "parse"
    /\ arg = ""

NextSymbols == RunNext

SpecSymbols == InitSymbols /\ [][NextSymbols]_vars

(***************************************************************************)
(* The assembler on programs that divide by zero, in every place where an  *)
(* expression can stand: an address operand, a constant, the size of a     *)
(* variable, an alias, an initializer, and a divisor that is a symbol.     *)
(***************************************************************************)
DivideFamily ==
    Once({"@1/0", "#k=1/0", "$a(1/0)", "$b@1%0", "$c=1/0", "$d(1/0)=1", "#z=0", "@1/z"})

DividePrograms == Files(DivideFamily)

InitDivide ==
    /\ lines \in DividePrograms
    /\ Fresh
    /\ phase = "parse"
    /\ arg = ""

NextDivide == RunNext

SpecDivide == InitDivide /\ [][NextDivide]_vars

(***************************************************************************)
(* The assembler on programs of initialized variables: anonymous blocks    *)
(* $_(size)=v1,... with values that take each branch of the synthesis (the *)
(* constants 0, 1 and -1, a 15-bit value, the values after it, a 16-bit    *)
(* value, a value above 65535 and one below -65536).                       *)
(***************************************************************************)
InitFamily ==
    Once({"$_(2)=0,1", "$_(1)=2", "$_(2)=3,4", "$_(2)=-1,40000", "$_(1)=70000",
          "$_(1)=-70000"})

InitPrograms == Files(InitFamily)

InitInit ==
    /\ lines \in InitPrograms
    /\ Fresh
    /\ phase = "parse"
    /\ arg = ""

NextInit == RunNext

SpecInit == InitInit /\ [][NextInit]_vars

(***************************************************************************)
(* The assembler on programs of anonymous declarations, one of each form.  *)
(***************************************************************************)
AnonymousFamily == Once({"$_", "$_=1", "$_(2)", "$_(2)=1,2", "$_@5"})

AnonymousPrograms == Files(AnonymousFamily)

InitAnonymous ==
    /\ lines \in AnonymousPrograms
    /\ Fresh
    /\ phase = "parse"
    /\ arg = ""

NextAnonymous == RunNext

SpecAnonymous == InitAnonymous /\ [][NextAnonymous]_vars

(***************************************************************************)
(* The assembler applied to files whose variables have sizes of zero and   *)
(* below.                                                                  *)
(***************************************************************************)
SizeFamily == Once({"$a(0)", "$b(0-1)", "$c(2)", "$d@5", "@x", "$e(-20)"})

SizePrograms == Files(SizeFamily)

InitSizes ==
    /\ lines \in SizePrograms
    /\ Fresh
    /\ phase = "parse"
    /\ arg = ""

NextSizes == RunNext

SpecSizes == InitSizes /\ [][NextSizes]_vars

(***************************************************************************)
(* evaluate applied to one division or remainder of two signed constants.  *)
(* arg is the pair of operands with the operator; res is what evaluate     *)
(* gives for the text a/b or a%b.                                          *)
(***************************************************************************)
MaxOperand == 7

SignedOperands == (0 - MaxOperand)..MaxOperand

Quotients ==
    [a : SignedOperands, op : {"/", "%"}, b : SignedOperands \ {0}]

\* the text of the division
QuotientText(q) == Str(q.a) \o q.op \o Str(q.b)

InitQuotient ==
    /\ lines = <<>>
    /\ Fresh
    /\ phase = "quotient"
    /\ arg \in Quotients

EvaluateQuotient ==
    /\ phase = "quotient"
    /\ res = Pending
    /\ res' = evaluate(QuotientText(arg), symbols, FALSE)
    /\ UNCHANGED <<lines, ops, tables, pc, ram, init_needed, phase, idx, hackfile, status, arg>>

NextQuotient == EvaluateQuotient

SpecQuotient == InitQuotient /\ [][NextQuotient]_vars

(***************************************************************************)
(* evaluate applied to an expression and to the same expression in         *)
(* parentheses after a unary operator.  arg is the operator with the       *)
(* expression; res holds what evaluate gives for e and for op(e).          *)
(***************************************************************************)
UnaryOperators == {"-", "+", "~"}

Wrappings == [op : UnaryOperators, e : Expressions]

\* the text op(e)
WrappedText(w) == w.op \o "(" \o ExpressionText(w.e) \o ")"

InitUnary ==
    /\ lines = <<>>
    /\ Fresh
    /\ phase = "unary"
    /\ arg \in Wrappings

EvaluateUnary ==
    /\ phase = "unary"
    /\ res = Pending
    /\ res' = [inner |-> evaluate(ExpressionText(arg.e), symbols, FALSE),
               outer |-> evaluate(WrappedText(arg), symbols, FALSE)]
    /\ UNCHANGED <<lines, ops, tables, pc, ram, init_needed, phase, idx, hackfile, status, arg>>

NextUnary == EvaluateUnary

SpecUnary == InitUnary /\ [][NextUnary]_vars

(***************************************************************************)
(* The properties checked.                                                 *)
(***************************************************************************)
Range(list) == {list[i] : i \in DOMAIN list}

ErrorOf(o) == Get(o, "error", "")

\* the phases that follow pass 2, and those that follow pass 3
AfterPass2 == {"pass3", "init", "codegen", "report", "done"}

AfterPass3 == {"init", "codegen", "report", "done"}

\* has pass 2 been over the operation at position i?
Pass2Done(i) == (phase = "pass2" /\ i < idx) \/ phase \in AfterPass2

\* has pass 3 been over the operation at position i?
Pass3Done(i) == (phase = "pass3" /\ i < idx) \/ phase \in AfterPass3

\* the errors that refuse the name of a declaration
NameErrors ==
    {"Empty symbol", "Cannot define a constant as a symbol", "Badly formed symbol",
     "Symbol previously defined", "Symbol previously defined (case-insensitive)"}

IsDeclaration(o) == o.cType \in {"V", "D"}

\* a declaration whose name was accepted
Bound(o) == IsDeclaration(o) /\ ErrorOf(o) \notin NameErrors

\* an accepted declaration of a variable that is no alias
IsBoundVariable(o) == Bound(o) /\ o.cType = "V" /\ ~Has(o, "alias")

\* the value of the expression of a declaration, 1 when it has none
Sized(r) == IF r.ok THEN r.val ELSE 1

SizeOf(o) == Sized(evaluate(o.expression, symbols, FALSE))

RECURSIVE InstructionsBefore(_, _)
\* the number of Address, Compute and ExtendedCompute operations before position i
InstructionsBefore(oplist, i) ==
    IF i <= 1 THEN 0
    ELSE InstructionsBefore(oplist, i - 1)
         + (IF oplist[i - 1].cType \in {"A", "C", "K"} THEN oplist[i - 1].line.n ELSE 0)

RECURSIVE AllocatedBefore(_, _)
\* the sum of the sizes of the variables bound before position i
AllocatedBefore(oplist, i) ==
    IF i <= 1 THEN 0
    ELSE AllocatedBefore(oplist, i - 1)
         + (IF IsBoundVariable(oplist[i - 1]) THEN SizeOf(oplist[i - 1]) ELSE 0)

\* C1: after symbol pass 1 every label is bound to the number of Address,
\* Compute and ExtendedCompute operations that precede it, and pc is the
\* number of all of them.
C1_LabelsCountInstructions ==
    (phase = "pass2" /\ idx = 1) =>
        /\ \A i \in DOMAIN ops :
              (ops[i].cType = "L" /\ ~Has(ops[i], "error")) =>
                  symbols[ops[i].symbol] = InstructionsBefore(ops, i)
        /\ pc = InstructionsBefore(ops, Len(ops) + 1)

\* C2: during symbol passes 1-3 no two distinct names of the symbol table,
\* the predefined ones included, are equal after upper-casing.
C2_NoCaseCollision ==
    phase \in {"pass1", "pass2", "pass3"} =>
        Cardinality({Upper(sym) : sym \in DOMAIN symbols}) = Cardinality(DOMAIN symbols)

\* the names the declarations of the program have defined so far
UserSymbols == Range(address_labels) \cup Range(declared_values) \cup Range(declared_variables)

\* is the next step of pass 1 or pass 2 on a declaration?
Declaring ==
    \/ phase = "pass1" /\ idx <= Len(ops) /\ ops[idx].cType = "L"
    \/ phase = "pass2" /\ idx <= Len(ops) /\ IsDeclaration(ops[idx])

\* a name that is empty, malformed, or a user symbol up to letter case
Unacceptable(sym) ==
    sym = "" \/ ~is_symbol(sym) \/ Upper(sym) \in {Upper(u) : u \in UserSymbols}

\* C3: a label, constant or variable declaration whose name is empty,
\* malformed, or already defined by an earlier-processed user declaration in
\* the same spelling or another letter case gets an error, and leaves the
\* symbol table, the tracking lists and the RAM cursor as they were.
C3_RejectedDeclarationChangesNothing ==
    [][(Declaring /\ Unacceptable(ops[idx].symbol)) =>
           /\ Has(ops'[idx], "error")
           /\ symbols' = symbols
           /\ ram' = ram
           /\ <<address_labels', declared_values', declared_variables', ucase_symbols'>>
                  = <<address_labels, declared_values, declared_variables, ucase_symbols>>]_vars

\* pass 2 has refused a variable whose name is a case variant of a user symbol
C3_Witness ==
    /\ phase = "pass2"
    /\ idx > 1
    /\ ops[idx - 1].cType = "V"
    /\ ErrorOf(ops[idx - 1]) = "Symbol previously defined (case-insensitive)"
    /\ ops[idx - 1].symbol \notin DOMAIN symbols
    /\ ram > 16

\* C4: the i-th non-alias variable pass 2 binds is at 16 plus the sizes of
\* the ones bound before it; an alias or a constant is bound to the value of
\* its expression and leaves the RAM cursor where it was.
C4_VariablesAtRunningSum ==
    /\ \A i \in DOMAIN ops :
          (Pass2Done(i) /\ Bound(ops[i])) =>
              symbols[ops[i].symbol] = IF IsBoundVariable(ops[i])
                                       THEN 16 + AllocatedBefore(ops, i)
                                       ELSE SizeOf(ops[i])
    /\ phase = "pass2" => ram = 16 + AllocatedBefore(ops, idx)

\* two variables with an alias between them are bound, the second one past
\* the first
C4_Witness ==
    /\ phase = "pass3"
    /\ \E i, j, k \in DOMAIN ops :
          /\ i < j /\ j < k
          /\ IsBoundVariable(ops[i]) /\ SizeOf(ops[i]) > 1
          /\ Bound(ops[j]) /\ Has(ops[j], "alias")
          /\ IsBoundVariable(ops[k])
          /\ symbols[ops[k].symbol] = 16 + SizeOf(ops[i])

\* is the operation at position i the first reference to an implicit variable?
AllocatesImplicitly(i) ==
    /\ ops[i].cType = "A"
    /\ Has(ops[i], "symbol")
    /\ ops[i].symbol \in Range(implicit_variables)
    /\ \A j \in 1..(i - 1) : ~(ops[j].cType = "A" /\ Get(ops[j], "symbol", "") = ops[i].symbol)

\* the number of implicit variables allocated before position i
ImplicitBefore(i) == Cardinality({j \in 1..(i - 1) : AllocatesImplicitly(j)})

\* C5: an allocation carries the out-of-memory error exactly when the RAM
\* cursor after it is greater than 16384, for the variables of pass 2 and for
\* the implicit variables of pass 3.
C5_OutOfMemoryExactlyPastCapacity ==
    /\ \A i \in DOMAIN ops :
          (Pass2Done(i) /\ IsBoundVariable(ops[i])) =>
              ((ErrorOf(ops[i]) = "Out of RAM (data) memory.")
                   <=> (16 + AllocatedBefore(ops, i) + SizeOf(ops[i]) > MAXRAM))
    /\ \A i \in DOMAIN ops :
          (Pass3Done(i) /\ AllocatesImplicitly(i)) =>
              ((ErrorOf(ops[i]) = "Out of memory.")
                   <=> (16 + AllocatedBefore(ops, Len(ops) + 1) + ImplicitBefore(i) + 1 > MAXRAM))

\* the declarations fill the RAM to exactly 16384 without an error, and the
\* implicit variable that follows is refused
C5_Witness ==
    /\ phase = "done"
    /\ ram = MAXRAM + 1
    /\ 16 + AllocatedBefore(ops, Len(ops) + 1) = MAXRAM
    /\ \A i \in DOMAIN ops : IsDeclaration(ops[i]) => ~Has(ops[i], "error")
    /\ \E i \in DOMAIN ops : AllocatesImplicitly(i) /\ ErrorOf(ops[i]) = "Out of memory."

\* C6: a run whose final pc is not below 32768 ends with a 'program too
\* large' error on some operation and without an output file.
C6_RomCapacityEnforced ==
    (phase = "done" /\ pc >= MAXROM) =>
        /\ \E i \in DOMAIN ops : ErrorOf(ops[i]) = "Program too large!"
        /\ ~hackfile.written

\* the end of a run: the file and exit(0) exactly when no operation has an error
EndsRight ==
    phase = "done" =>
        /\ hackfile.written <=> ~AnyError(ops)
        /\ (status = "exit(0)") <=> ~AnyError(ops)

\* with an error after passes 1-3, the synthesis and the encoding leave the
\* operations and the program counter alone
GatesHold == (phase \in {"init", "codegen"} /\ AnyError(ops)) => (ops' = ops /\ pc' = pc)

\* C7: the file is written and the status is 0 exactly when no operation
\* carries an error at the end; when an operation carries an error after
\* passes 1-3, neither the initialization synthesis nor the encoding runs;
\* warnings do not keep the file from being written.
C7_OutputIffNoError == [](EndsRight) /\ [][GatesHold]_vars

RECURSIVE OrAll(_)
\* the bitwise or of a list of fields
OrAll(fields) == IF fields = <<>> THEN 0 ELSE BitOr(Head(fields), OrAll(Tail(fields)))

\* C8: for an Address operation with a value, and for a Compute or
\* ExtendedCompute operation whose texts are in the tables, codegen returns
\* with no error and one code in 0..65535; the code of an Address is the low
\* 15 bits of the value, bit 15 being 0; the code of the others has bits
\* 15..13 set and is the bitwise or of its fields, the jump in bits 2..0 and
\* the dest in bits 5..3.
C8_EncodingTotalAndFielded ==
    (phase = "encode" /\ res # Pending) =>
        /\ res.ok
        /\ ~Has(res.val, "error")
        /\ Has(res.val, "code")
        /\ res.val.code \in 0..65535
        /\ arg.op.cType = "A" =>
              /\ res.val.code < 32768
              /\ res.val.code = arg.value % 32768
        /\ arg.op.cType \in {"C", "K"} =>
              /\ res.val.code \div 8192 = 7
              /\ res.val.code = BitOr(CINSTR, OrAll(arg.fields))
              /\ res.val.code % 8 = JMPS[arg.op.jump]
              /\ ((res.val.code \div 8) % 8) * 8 = DESTS[arg.op.dest]

\* an ExtendedCompute operation is encoded with the negation bit, a dest and a jump
C8_Witness ==
    /\ phase = "encode"
    /\ arg.op.cType = "K"
    /\ res.ok
    /\ Has(res.val, "code")
    /\ (res.val.code \div 64) % 2 = 1
    /\ (res.val.code \div 8) % 8 # 0
    /\ res.val.code % 8 # 0

\* C9: operation returns for every line, so that every line of the file is
\* parsed.
C9_OperationNeverRaises ==
    /\ phase = "parse" => \A i \in DOMAIN lines : operation(lines[i], symbols).ok
    /\ phase # "aborted"

\* the values of the operands
OperandValue ==
    ("0" :> 0) @@ ("2" :> 2) @@ ("3" :> 3) @@ ("4" :> 4) @@ ("10" :> 10) @@
    ("R2" :> PredefinedSymbols["R2"])

RECURSIVE LeftFold(_, _)
\* ((acc op1 c1) op2 c2) ..., an exception ending the fold
LeftFold(acc, rest) ==
    IF rest = <<>> \/ ~acc.ok THEN acc
    ELSE LeftFold(ApplyBinary(Head(rest)[1], acc.val, OperandValue[Head(rest)[2]]), Tail(rest))

\* C10: evaluate of a parenthesis-free expression of non-negative constants
\* and defined symbols is the left-to-right fold of its binary operators,
\* none binding tighter than another: 2+3*4 is 20 and 10-3*2 is 14.
C10_LeftToRightFold ==
    (phase = "evaluate" /\ res # Pending) =>
        /\ res = LeftFold(Ret(OperandValue[arg.first]), arg.rest)
        /\ ExpressionText(arg) = "2+3*4" => res = Ret(20)
        /\ ExpressionText(arg) = "10-3*2" => res = Ret(14)

\* 2+3*4 has been evaluated to 20
C10_Witness ==
    /\ phase = "evaluate"
    /\ ExpressionText(arg) = "2+3*4"
    /\ res = Ret(20)

\* bit k of the code c
Bit(c, k) == (c \div Pow2(k)) % 2

\* C11: every comp of the documented precise format X F Y, wrapped in !( )
\* or not, is encoded without error; Y = A or !A leaves the a-bit (bit 12)
\* clear, Y = M or !M sets it, and the wrapper sets the complement bit
\* (bit 6).
C11_DocumentedPreciseFormatEncodes ==
    (phase = "precise" /\ res # Pending) =>
        /\ res.ok
        /\ ~Has(res.val, "error")
        /\ Has(res.val, "code")
        /\ arg.y \in {"A", "!A"} => Bit(res.val.code, 12) = 0
        /\ arg.y \in {"M", "!M"} => Bit(res.val.code, 12) = 1
        /\ arg.wrapped => Bit(res.val.code, 6) = 1

\* does a declaration supply at least one initializer value?
SuppliesInitializer ==
    \E i \in DOMAIN ops : Has(ops[i], "init") /\ Len(ops[i].init) > 0

\* an operation the assembler made up, not one of a line of the file
IsSynthesized(o) == ~Has(o.line, "original")

RECURSIVE UserInstructions(_)
\* the number of Address, Compute and ExtendedCompute operations of the file
UserInstructions(oplist) ==
    IF oplist = <<>> THEN 0
    ELSE (IF ~IsSynthesized(Head(oplist)) /\ Head(oplist).cType \in {"A", "C", "K"}
          THEN Head(oplist).line.n ELSE 0) + UserInstructions(Tail(oplist))

RECURSIVE WordCount(_)
\* the number of words of the file written
WordCount(words) == IF words = <<>> THEN 0 ELSE Head(words).n + WordCount(Tail(words))

\* the passes have the operations
PassesRun == phase \in {"pass1", "pass2", "pass3", "init", "codegen", "report", "done"}

\* C12: the scaffold and the initialization body are added only when some
\* declaration supplies an initializer value; a program whose declarations
\* are all uninitialized, $name(size) included, has no synthesized operation,
\* defines no __INIT symbol, and is written as one word per instruction.
C12_InitOnlyWithInitializers ==
    (PassesRun /\ ~SuppliesInitializer) =>
        /\ \A i \in DOMAIN ops : ~IsSynthesized(ops[i])
        /\ "__INIT" \notin DOMAIN symbols
        /\ "__INIT.Ret" \notin DOMAIN symbols
        /\ (phase = "done" /\ hackfile.written) =>
               WordCount(hackfile.words) = UserInstructions(ops)

\* C13: codegen of an Address operation, be its operand a literal constant,
\* a symbol or an expression, sets no error, and sets the lower 15 bits used
\* warning exactly when the value is below -16384 or above 32767.
C13_RangeWarningOnEveryAddress ==
    (phase = "encode" /\ res # Pending /\ arg.op.cType = "A") =>
        /\ res.ok
        /\ ~Has(res.val, "error")
        /\ Has(res.val, "warning") <=> (arg.value < -16384 \/ arg.value > 32767)

\* the five tracking lists, as sets
TrackingLists ==
    <<DOMAIN PredefinedSymbols, Range(address_labels), Range(declared_values),
      Range(declared_variables), Range(implicit_variables)>>

\* C14: after passes 1-3 the five tracking lists (predefined, labels,
\* constants, declared variables, implicit variables) are pairwise disjoint
\* and together hold every symbol of the table.
C14_TrackingListsPartitionSymbols ==
    phase \in AfterPass3 =>
        /\ DOMAIN symbols = UNION {TrackingLists[k] : k \in 1..5}
        /\ \A j, k \in 1..5 : j # k => TrackingLists[j] \cap TrackingLists[k] = {}

\* the symbols passes 1-2 leave defined: the predefined ones, the labels and
\* the declarations that were accepted
DeclaredSymbols ==
    {ops[i].symbol : i \in {j \in DOMAIN ops : \/ ops[j].cType = "L" /\ ~Has(ops[j], "error")
                                               \/ Bound(ops[j])}}

DefinedBeforePass3 == DOMAIN PredefinedSymbols \cup DeclaredSymbols

\* the RAM cursor pass 2 leaves
CursorBeforePass3 == 16 + AllocatedBefore(ops, Len(ops) + 1)

\* is the operation at position i an Address operation on a symbol that
\* passes 1-2 left undefined?
Undefined(i) ==
    /\ ops[i].cType = "A"
    /\ Has(ops[i], "symbol")
    /\ ops[i].symbol \notin DefinedBeforePass3

UndefinedSymbols == {ops[i].symbol : i \in {j \in DOMAIN ops : Undefined(j)}}

\* the position of the first reference to the undefined symbol sym
FirstReference(sym) ==
    CHOOSE i \in DOMAIN ops :
        /\ Undefined(i) /\ ops[i].symbol = sym
        /\ \A j \in 1..(i - 1) : ~(Undefined(j) /\ ops[j].symbol = sym)

\* the undefined symbols first referenced before position i
ReferencedBefore(i) == {sym \in UndefinedSymbols : FirstReference(sym) < i}

\* the statement as the specification has it: every undefined symbol that
\* is referenced gets the next address, in order of first reference
C15_EveryUndefinedReferenceAllocated ==
    /\ \A i \in DOMAIN ops :
          (Pass3Done(i) /\ Undefined(i)) =>
              /\ ops[i].symbol \in DOMAIN symbols
              /\ symbols[ops[i].symbol] =
                     CursorBeforePass3
                     + Cardinality(ReferencedBefore(FirstReference(ops[i].symbol)))
    /\ phase \in AfterPass3 => ram = CursorBeforePass3 + Cardinality(UndefinedSymbols)

\* an undefined symbol that differs only in letter case from a symbol of the
\* program, declared or first referenced earlier, is refused
IsCaseVariant(sym) ==
    \/ Upper(sym) \in {Upper(u) : u \in DeclaredSymbols}
    \/ \E other \in UndefinedSymbols :
          /\ other # sym /\ Upper(other) = Upper(sym)
          /\ FirstReference(other) < FirstReference(sym)
          /\ Upper(other) \notin {Upper(u) : u \in DeclaredSymbols}
          /\ \A third \in UndefinedSymbols :
                (Upper(third) = Upper(sym)) => FirstReference(other) <= FirstReference(third)

\* the undefined symbols pass 3 allocates, and those of them first referenced
\* before position i
AllocatedSymbols == {sym \in UndefinedSymbols : ~IsCaseVariant(sym)}

AllocatedSymbolsBefore(i) == {sym \in AllocatedSymbols : FirstReference(sym) < i}

\* C15: in pass 3 every symbol that an Address operation references, that
\* passes 1-2 left undefined and that is no case variant of a symbol of the
\* program gets one RAM address, in order of first reference from the cursor
\* pass 2 left; a case variant gets an error and no address; later
\* references and references to defined symbols allocate nothing.
C15_ImplicitVariablesInReferenceOrder ==
    /\ \A i \in DOMAIN ops :
          (Pass3Done(i) /\ Undefined(i)) =>
              IF IsCaseVariant(ops[i].symbol)
              THEN /\ ops[i].symbol \notin DOMAIN symbols
                   /\ ErrorOf(ops[i]) = "Symbol previously defined (case-insensitive)"
              ELSE /\ ops[i].symbol \in DOMAIN symbols
                   /\ symbols[ops[i].symbol] =
                          CursorBeforePass3
                          + Cardinality(AllocatedSymbolsBefore(FirstReference(ops[i].symbol)))
    /\ phase = "pass3" => ram = CursorBeforePass3 + Cardinality(AllocatedSymbolsBefore(idx))
    /\ phase \in AfterPass3 => ram = CursorBeforePass3 + Cardinality(AllocatedSymbols)

\* two undeclared symbols are allocated one after the other, and a second
\* reference to the first allocates nothing
C15_Witness ==
    /\ phase \in AfterPass3
    /\ \E i, j, k \in DOMAIN ops :
          /\ i < j /\ j < k
          /\ Undefined(i) /\ Undefined(j) /\ Undefined(k)
          /\ ops[k].symbol = ops[i].symbol
          /\ ops[j].symbol # ops[i].symbol
          /\ ~IsCaseVariant(ops[i].symbol) /\ ~IsCaseVariant(ops[j].symbol)
          /\ symbols[ops[i].symbol] = CursorBeforePass3
          /\ symbols[ops[j].symbol] = CursorBeforePass3 + 1
          /\ ram = CursorBeforePass3 + 2

(***************************************************************************)
(* The target machine on the instructions of the initialization code: the  *)
(* registers A and D and the memory M, 16 bits wide.                       *)
(***************************************************************************)
\* the value the ALU gives for the comp text, in the machine state m
CompValue(comp, m) ==
    CASE comp = "0" -> 0
      [] comp = "1" -> 1
      [] comp = "-1" -> 65535
      [] comp = "A" -> m.A
      [] comp = "!A" -> 65535 - m.A
      [] comp = "D" -> m.D
      [] comp = "D+1" -> (m.D + 1) % 65536

\* the machine state after storing v in the dest
Stored(dest, v, m) ==
    CASE dest = "D" -> [m EXCEPT !.D = v]
      [] dest = "M" -> [m EXCEPT !.M = Put(m.M, Str(m.A), v)]
      [] OTHER -> m

\* the machine state after the instruction o, an Address or Compute operation
\* with its code
Executed(o, m) ==
    IF o.cType = "A" THEN [m EXCEPT !.A = o.code]
    ELSE IF o.cType = "C" THEN Stored(o.dest, CompValue(o.comp, m), m)
    ELSE m

RECURSIVE Run(_, _)
\* the machine state after the instructions of oplist, one after the other
Run(oplist, m) == IF oplist = <<>> THEN m ELSE Run(Tail(oplist), Executed(Head(oplist), m))

\* the position of the label __INIT, where the initialization code starts
InitLabel == CHOOSE i \in DOMAIN ops : ops[i].cType = "L" /\ ops[i].symbol = "__INIT"

\* the initialization code as it was written to the file
InitCode == SubSeq(ops, InitLabel + 1, Len(ops))

\* the run wrote a file that holds initialization code
InitWritten ==
    /\ phase = "done"
    /\ hackfile.written
    /\ \E i \in DOMAIN ops : ops[i].cType = "L" /\ ops[i].symbol = "__INIT"
    /\ \A i \in DOMAIN ops : ops[i].cType \in {"A", "C", "K"} => Has(ops[i], "code")

\* the values D may hold when the initialization code starts
InitialD == {0, 1, 39999, 65535}

\* the memory the initialization code leaves, from D = d
MemoryAfterInit(d) == Run(InitCode, [A |-> 0, D |-> d, M |-> [none |-> 0]]).M

\* the list of initializations: the values with the symbol and offset of each
InitInfo == Gather(ops, symbols).info

\* every value of the list is a 16-bit value
ValuesIn16Bits == \A k \in DOMAIN InitInfo : InitInfo[k].val \in 0..65535

\* the address the entry e initializes
InitTarget(e) == symbols[e.symbol] + e.offset

\* does the memory hold the value of every entry of the list at its address?
HoldsEvery(memory, info) ==
    \A k \in DOMAIN info :
        /\ Has(memory, Str(InitTarget(info[k])))
        /\ memory[Str(InitTarget(info[k]))] = info[k].val

\* C16: for initializer values in 0..65535 at distinct addresses, the
\* initialization code run on the target machine from any D leaves every
\* initialized address holding its value.
C16_InitCodeStoresEveryValue ==
    (InitWritten /\ ValuesIn16Bits) =>
        \A d \in InitialD : HoldsEvery(MemoryAfterInit(d), InitInfo)

\* the code stores 0 and 1, then loads 2 afresh rather than incrementing D,
\* then stores 3 and 4 by increments
C16_Witness ==
    /\ InitWritten
    /\ ValuesIn16Bits
    /\ {InitInfo[k].val : k \in DOMAIN InitInfo} = {0, 1, 2, 3, 4}
    /\ \E i \in DOMAIN InitCode : InitCode[i].cType = "C" /\ InitCode[i].comp = "D+1"
    /\ \E i \in DOMAIN InitCode : Get(InitCode[i], "expression", "") = "2"
    /\ MemoryAfterInit(0)[Str(InitTarget(InitInfo[3]))] = 2

\* the value an initializer expression evaluates to, as a 16-bit value
In16Bits(r) == r.val % 65536

\* is the entry that the initializer k of the operation o adds to the list
\* the 16-bit form of its value?  r is what evaluate gives for it
EntryIs16BitForm(o, k, r) ==
    r.ok => /\ GatherOne(o, k - 1, symbols).info[1].val \in 0..65535
            /\ GatherOne(o, k - 1, symbols).info[1].val = In16Bits(r)

\* does the memory hold the 16-bit form of the initializer k of o?
Holds16BitForm(memory, o, k, r) ==
    r.ok => /\ Has(memory, Str(symbols[o.symbol] + k - 1))
            /\ memory[Str(symbols[o.symbol] + k - 1)] = In16Bits(r)

\* the initialization code has been synthesized
InitSynthesized ==
    /\ phase \in {"codegen", "report", "done"}
    /\ \E i \in DOMAIN ops : Get(ops[i], "expression", "") = "__INIT.Ret"

\* C17: every entry of the initialization list is in 0..65535 and is the
\* initializer's value modulo 65536, whatever integer the initializer
\* evaluates to; the initialization code writes that 16-bit value.
C17_InitValuesAre16Bit ==
    /\ InitSynthesized =>
           \A i \in DOMAIN ops : Has(ops[i], "init") =>
               \A k \in DOMAIN ops[i].init :
                   EntryIs16BitForm(ops[i], k, evaluate(ops[i].init[k], symbols, FALSE))
    /\ InitWritten =>
           \A i \in DOMAIN ops : Has(ops[i], "init") =>
               \A k \in DOMAIN ops[i].init :
                   Holds16BitForm(MemoryAfterInit(0), ops[i], k,
                                  evaluate(ops[i].init[k], symbols, FALSE))

\* the expressions the operation o holds: its expression, its initializers,
\* and the operand of an @ that operation took for no symbol, constant or
\* expression
HeldExpressions(o) ==
    (IF Has(o, "expression") THEN {o.expression} ELSE {})
    \cup (IF Has(o, "init") THEN Range(o.init) ELSE {})
    \cup (IF o.cType = "A" /\ ~Has(o, "symbol") /\ ~Has(o, "constant") /\ ~Has(o, "expression")
          THEN {From(o.line.text, 2)} ELSE {})

\* does evaluate of the expression divide by zero?
IsZeroDivision(r) == ~r.ok /\ r.exc = "ZeroDivisionError"

\* does the operation hold an expression that divides by zero?
DividesByZero(o) ==
    \E e \in HeldExpressions(o) : IsZeroDivision(evaluate(e, symbols, FALSE))

\* C18: wherever an expression divides or takes a remainder by zero (an
\* address operand, a constant, a variable size, an alias, an initializer)
\* the run does not abort, and at its end the operation that holds the
\* expression has the divide by zero error.
C18_DivideByZeroIsAnError ==
    /\ phase # "aborted"
    /\ phase = "done" =>
           \A i \in DOMAIN ops :
               (~IsSynthesized(ops[i]) /\ DividesByZero(ops[i])) =>
                   ErrorOf(ops[i]) = "Divide by 0 error in expression"

\* is the text a variable declaration of the name _ ?
IsAnonymousLine(text) ==
    \/ text = "$_"
    \/ StartsWith(text, "$_=")
    \/ StartsWith(text, "$_(")
    \/ StartsWith(text, "$_@")

\* the operations of the anonymous declarations of the file
AnonymousOps ==
    {i \in DOMAIN ops : ~IsSynthesized(ops[i]) /\ ops[i].cType = "V"
                        /\ IsAnonymousLine(ops[i].line.text)}

\* C19: in every variable declaration form the name _ is replaced by a name
\* made of the line number, so the anonymous declarations of a program are
\* all accepted, each with a symbol of its own.
C19_AnonymousInEveryForm ==
    phase \in AfterPass2 =>
        /\ \A i \in AnonymousOps :
              /\ ops[i].symbol = "__Anon__" \o Str(ops[i].line.num)
              /\ ErrorOf(ops[i]) \notin NameErrors
              /\ ops[i].symbol \in DOMAIN symbols
        /\ \A i, j \in AnonymousOps : i # j => ops[i].symbol # ops[j].symbol

Abs(a) == IF a < 0 THEN 0 - a ELSE a

\* the quotient of a by b truncated toward zero
TruncatedQuotient(a, b) ==
    IF (a < 0) = (b < 0) THEN Abs(a) \div Abs(b) ELSE 0 - (Abs(a) \div Abs(b))

\* the remainder that goes with it, of the sign of a
TruncatedRemainder(a, b) == a - TruncatedQuotient(a, b) * b

\* C20: for any a and any b other than 0, negative ones included, a/b is the
\* quotient truncated toward zero and a%b is the remainder of the sign of a,
\* so that a = (a/b)*b + (a%b).
C20_DivisionTruncatesTowardZero ==
    (phase = "quotient" /\ res # Pending) =>
        /\ res.ok
        /\ arg.op = "/" => res.val = TruncatedQuotient(arg.a, arg.b)
        /\ arg.op = "%" => /\ res.val = TruncatedRemainder(arg.a, arg.b)
                           /\ (res.val = 0 \/ (res.val < 0) = (arg.a < 0))

\* C21: for every expression e that evaluate accepts, of a value of either
\* sign, evaluate accepts -(e), +(e) and ~(e) and gives the negation of the
\* value, the value and its bitwise complement.
C21_UnaryOfParenthesised ==
    (phase = "unary" /\ res # Pending /\ res.inner.ok) =>
        res.outer = ApplyUnary(arg.op, res.inner.val)

\* the run is over and no operation carries an error
NoErrorReported == phase = "done" /\ ~AnyError(ops)

\* the names that the alias declarations bound
AliasSymbols ==
    {ops[i].symbol : i \in {j \in DOMAIN ops : Bound(ops[j]) /\ Has(ops[j], "alias")}}

\* the positions in declared_variables of the variables that take RAM, the
\* implicit ones included, in the order of their allocation
Allocations == {k \in DOMAIN declared_variables : declared_variables[k] \notin AliasSymbols}

\* the number of words of the variable: its size, 1 for an implicit variable
ExtentOf(sym) ==
    IF sym \in Range(implicit_variables) THEN 1
    ELSE SizeOf(ops[CHOOSE i \in DOMAIN ops : IsBoundVariable(ops[i]) /\ ops[i].symbol = sym])

\* the addresses of the variable
CellsOf(sym) == symbols[sym]..(symbols[sym] + ExtentOf(sym) - 1)

\* the cursor values at the allocations, each the base of a variable, and
\* the last one in ram, never go down
CursorNeverDecreased ==
    /\ \A k, l \in Allocations :
          k < l => symbols[declared_variables[k]] <= symbols[declared_variables[l]]
    /\ \A k \in Allocations : symbols[declared_variables[k]] <= ram

BasesAbovePredefined == \A k \in Allocations : symbols[declared_variables[k]] >= 16

RangesDisjoint ==
    \A k, l \in Allocations :
        k # l => CellsOf(declared_variables[k]) \cap CellsOf(declared_variables[l]) = {}

\* C22: in an assembly that reports no error, whatever the sizes (zero and
\* negative ones included), the RAM cursor never went down in passes 2 and 3,
\* every variable that is no alias, declared or implicit, has a base address
\* of 16 or more, and the address ranges of distinct such variables do not
\* overlap.
C22_AllocationMonotoneAndDisjoint ==
    NoErrorReported =>
        /\ CursorNeverDecreased
        /\ BasesAbovePredefined
        /\ RangesDisjoint

====
